---- MODULE Spec2Model ----
(***************************************************************************)
(* One request of the file-conversion tool: the Initiator is               *)
(* send_request_to_server of client.py, the Responder is the body of the   *)
(* accept loop of server_program of server.py.  The two talk over one TCP  *)
(* connection, modelled as two byte streams (c2s, s2c).  An element of a   *)
(* stream is either one payload byte or one token (the bytes of one        *)
(* sendall of a short field); a receive returns what is in the stream at   *)
(* that moment, so two tokens sent back to back can come out of one        *)
(* receive, glued together.                                                *)
(***************************************************************************)
EXTENDS Integers, Sequences, FiniteSets, TLC

\* ------------------------------------------------------------------ bounds
MaxFile == 3        \* longest input payload, in bytes
MaxOut == 3         \* longest result file, in bytes
ChunkSize == 2      \* the 65536 of both receive loops and both send loops, scaled
MaxPaths == 2       \* most paths handed to send_request_to_server
MaxConns == 2       \* most connections made to the listening socket in one run

\* ------------------------------------------------------------ vocabulary
None == "<None>"    \* Python's None

Actions ==
  {"convert", "encrypt", "decrypt", "pdf_to_jpg", "pdf_to_word", "pdf_to_pptx",
   "compress", "split", "merge", "rotate", "add_numbers"}

\* what a caller can pass as the action: the eleven tags and one that is none of them
ActionInputs == Actions \cup {"bogus"}

OptionKeys == {"password", "ranges", "pages", "angle", "position"}

\* the values an option can have: absent (None), the empty string, a value
OptionValues == {None, "", "v"}

NoOptions == [k \in OptionKeys |-> None]

Min(a, b) == IF a < b THEN a ELSE b

\* ---------------------------------------------------------------- streams
Tok(kind, str, num) == [k |-> kind, s |-> str, n |-> num]

Byte(b) == Tok("byte", "", b)
Ack(name) == Tok("ack", name, 0)
ActionTok(a) == Tok("action", a, 0)
FieldTok(v) == Tok("field", v, 0)
NameTok(chars) == Tok("name", chars, 0)
MsgTok(m) == Tok("errmsg", m, 0)

\* What can arrive where a size field is due: the sixteen bytes of
\* str(n).ljust(16), which is what both programs send; the numeral of n in
\* fewer than sixteen bytes; sixteen bytes that are no numeral.
SizeFieldForms == {"padded", "short", "text"}

\* a size field in one of these forms
RawSizeTok(form, n) == Tok("size", form, n)

\* str(n).encode().ljust(16): the size field
SizeTok(n) == RawSizeTok("padded", n)

\* the bytes of an input file of n bytes, and of a result file of n bytes: every
\* byte is different, so a lost, repeated or moved byte shows
FileBytes(n) == [i \in 1..n |-> Byte(i)]
OutBytes(n) == [i \in 1..n |-> Byte(0 - i)]

\* sendall(b"") puts nothing on the wire
IsEmptyTok(t) == t.k = "field" /\ t.s = ""

Take(q, j) == SubSeq(q, 1, j)
Drop(q, j) == SubSeq(q, j + 1, Len(q))

IsPrefix(p, q) == Len(p) <= Len(q) /\ SubSeq(q, 1, Len(p)) = p


\* ----------------------------------------------------------- the socket
\* a socket without settimeout: a recv with nothing to read, from a peer that
\* has not closed, blocks for ever
RecvResults_NoTimeout(chan, peerClosed, rst, takes) ==
  LET normal ==
        IF chan # <<>>
          THEN {[st |-> "data", d |-> Take(chan, j), rest |-> Drop(chan, j)] : j \in takes}
          ELSE IF peerClosed
            THEN {[st |-> "eof", d |-> <<>>, rest |-> <<>>]}
            ELSE {}
  IN  normal \cup (IF rst THEN {[st |-> "reset", d |-> <<>>, rest |-> <<>>]} ELSE {})

\* What one recv can do.  `takes` are the lengths it may return when the stream
\* holds data.  With nothing to read it returns b"" once the peer has closed,
\* and otherwise blocks until its timeout; after a reset of the connection it
\* may also raise ConnectionResetError.
RecvResults(chan, peerClosed, rst, takes) ==
  LET normal ==
        IF chan # <<>>
          THEN {[st |-> "data", d |-> Take(chan, j), rest |-> Drop(chan, j)] : j \in takes}
          ELSE IF peerClosed
            THEN {[st |-> "eof", d |-> <<>>, rest |-> <<>>]}
            ELSE {[st |-> "timeout", d |-> <<>>, rest |-> <<>>]}
  IN  normal \cup (IF rst THEN {[st |-> "reset", d |-> <<>>, rest |-> <<>>]} ELSE {})

\* recv(1024) of a short field: everything that has arrived (the model's
\* fields are far shorter than 1024 bytes together)
TokenTakes(chan) == {Len(chan)}

\* recv(16): the sixteen bytes of one size field
SizeTakes(chan) == {1}

\* recv(n) of payload bytes: at least one byte, at most n, at most what has arrived
BulkTakes(chan, n) == 1..Min(n, Len(chan))

\* What one sendall can do.  To an open peer the bytes are queued.  To a peer
\* that has closed they are lost and the connection is reset; on a connection
\* already reset the call may raise instead.
SendResults(chan, toks, peerClosed, rst) ==
  IF ~peerClosed
    THEN {[ok |-> TRUE, chan |-> chan \o toks, rst |-> rst]}
    ELSE {[ok |-> TRUE, chan |-> <<>>, rst |-> (rst \/ toks # <<>>)]}
         \cup (IF rst /\ toks # <<>> THEN {[ok |-> FALSE, chan |-> <<>>, rst |-> TRUE]} ELSE {})

\* the bytes of one sendall of a token
Wire(t) == IF IsEmptyTok(t) THEN <<>> ELSE <<t>>

\* ------------------------------------------------------------------ names
\* A file name is the tuple of its characters.
Chars_error_processing_bin == <<"e", "r", "r", "o", "r", "_", "p", "r", "o", "c", "e", "s", "s", "i", "n", "g", ".", "b", "i", "n">>
Chars_error_file_not_found_bin == <<"e", "r", "r", "o", "r", "_", "f", "i", "l", "e", "_", "n", "o", "t", "_", "f", "o", "u", "n", "d", ".", "b", "i", "n">>
Chars_error_ == <<"e", "r", "r", "o", "r", "_">>
Chars_processed == <<"p", "r", "o", "c", "e", "s", "s", "e", "d">>
Chars_images_zip == <<"_", "i", "m", "a", "g", "e", "s", ".", "z", "i", "p">>
Chars_split_files_zip == <<"_", "s", "p", "l", "i", "t", "_", "f", "i", "l", "e", "s", ".", "z", "i", "p">>
Chars_merged_ == <<"m", "e", "r", "g", "e", "d", "_">>
Chars_pdf == <<".", "p", "d", "f">>
Chars_docx == <<".", "d", "o", "c", "x">>
Chars_pptx == <<".", "p", "p", "t", "x">>
Chars_merge_input_ == <<"m", "e", "r", "g", "e", "_", "i", "n", "p", "u", "t", "_">>
Chars_files_zip == <<"f", "i", "l", "e", "s", ".", "z", "i", "p">>
Chars_zip == <<".", "z", "i", "p">>
Chars_merge_ == <<"m", "e", "r", "g", "e", "_">>
Chars_extracted_ == <<"_", "e", "x", "t", "r", "a", "c", "t", "e", "d", "_">>
Chars_jpg_output == <<"_", "j", "p", "g", "_", "o", "u", "t", "p", "u", "t">>
Chars_images == <<"_", "i", "m", "a", "g", "e", "s">>
Chars_pptx_temp_imgs == <<"_", "p", "p", "t", "x", "_", "t", "e", "m", "p", "_", "i", "m", "g", "s">>
Chars_split_output == <<"_", "s", "p", "l", "i", "t", "_", "o", "u", "t", "p", "u", "t">>
Chars_split_files == <<"_", "s", "p", "l", "i", "t", "_", "f", "i", "l", "e", "s">>

Digits == <<"0", "1", "2", "3", "4", "5", "6", "7", "8", "9">>

\* str(n) for the small counts the model uses
StrOfCount(n) == <<Digits[n + 1]>>

Letters ==
  {"a", "b", "c", "d", "e", "f", "g", "h", "i", "j", "k", "l", "m", "n", "o", "p", "q",
   "r", "s", "t", "u", "v", "w", "x", "y", "z", "E", "R", "O"}

\* c.isalnum()
IsAlnum(c) == c \in Letters \/ c \in {Digits[i] : i \in 1..10}

\* the largest index of s holding a character of set, 0 when there is none: str.rfind
RFind(s, set) ==
  LET hits == {i \in 1..Len(s) : s[i] \in set}
  IN  IF hits = {} THEN 0 ELSE CHOOSE i \in hits : \A j \in hits : j <= i

\* os.path.splitext (the server runs on Windows: both separators count):
\* <<root, ext>>, where ext starts at the last dot of the last path component,
\* unless that component has only dots before it
SplitExt(name) ==
  LET sepIndex == RFind(name, {"\\", "/"})
      dotIndex == RFind(name, {"."})
  IN  IF dotIndex > sepIndex /\ \E i \in (sepIndex + 1)..(dotIndex - 1) : name[i] # "."
        THEN <<Take(name, dotIndex - 1), Drop(name, dotIndex - 1)>>
        ELSE <<name, <<>> >>

\* the length cap of safe_base and of the merged output name
NameCap == 50

\* "".join(c if c.isalnum() or c in ['_', '-'] else '_' for c in base)[:50]
SafeBase(base) ==
  Take([i \in 1..Len(base) |-> IF IsAlnum(base[i]) \/ base[i] \in {"_", "-"} THEN base[i] ELSE "_"],
       Min(NameCap, Len(base)))

\* output_filename_suggestion of the path setup
SuggestedName(act, base_filename) ==
  LET input_filename_base == SplitExt(base_filename)[1]
      safe_base == SafeBase(input_filename_base)
      merged == Chars_merged_ \o input_filename_base
  IN  CASE act = "pdf_to_jpg" -> safe_base \o Chars_images_zip
        [] act = "pdf_to_word" -> safe_base \o Chars_docx
        [] act = "pdf_to_pptx" -> safe_base \o Chars_pptx
        [] act = "split" -> safe_base \o Chars_split_files_zip
        [] act = "merge" -> Take(merged, Min(NameCap, Len(merged))) \o Chars_pdf
        [] act = "convert" -> safe_base \o <<"_">> \o Chars_processed \o Chars_pdf
        [] OTHER -> safe_base \o <<"_">> \o <<act>> \o Chars_pdf

\* str.lower() on the characters of the model
Lower(c) ==
  CASE c = "E" -> "e" [] c = "R" -> "r" [] c = "O" -> "o"
    [] c = "A" -> "a" [] c = "L" -> "l"
    [] c = "P" -> "p" [] c = "D" -> "d" [] c = "F" -> "f" [] c = "B" -> "b"
    [] OTHER -> c

\* a client that takes every name for the sentinel
HasErrorSentinel_Any(name) == TRUE

\* "error_" in name.lower()
HasErrorSentinel(name) ==
  \E i \in 1..(Len(name) - 5) :
     [j \in 1..6 |-> Lower(name[i + j - 1])] = Chars_error_

\* ------------------------------------------------------------------ state
VARIABLES
  client,   \* the locals of send_request_to_server and where it stands
  server,   \* the locals of the accept loop's body and where it stands
  c2s,      \* bytes sent by the client, not yet received by the server
  s2c,      \* bytes sent by the server, not yet received by the client
  conn,     \* the connection: "none", "pending" (connected, not accepted), "accepted"
  log,      \* what has happened so far (history only: nothing reads it to decide)
  listen,   \* the listening socket: connections made, and those not yet accepted
  loop,     \* the accept loop seen over several connections: its paths and where it stands
  temp,     \* the paths that exist in the file system
  call      \* one call of a function of the program: its arguments and what it gave

\* the variables of one request, and those of the accept loop over many
rvars == <<client, server, c2s, s2c, conn, log>>
dvars == <<listen, loop, temp>>
\* the variable of one call of a function of the program
evars == <<call>>

vars == <<client, server, c2s, s2c, conn, log, listen, loop, temp, call>>

\* no function is being called
NoCall == [fn |-> "none"]

NoFile == [exists |-> FALSE, data |-> <<>>]
FileOf(bytes) == [exists |-> TRUE, data |-> bytes]

\* the base name of the file picked in the dialog
InputName == <<"d", ".", "p", "d", "f">>

\* the base names a picked file can have: a plain one, and two that hold the
\* text of the error sentinel, in lower and in upper case
InputNames ==
  {InputName,
   <<"e", "r", "r", "o", "r", "_", ".", "p", "d", "f">>,
   <<"E", "R", "R", "O", "R", "_", ".", "p", "d", "f">>}

\* the option keys an action reads; the others stay None
KeysOf(a) ==
  CASE a \in {"encrypt", "decrypt"} -> {"password"}
    [] a = "split" -> {"ranges"}
    [] a = "rotate" -> {"pages", "angle"}
    [] a = "add_numbers" -> {"position"}
    [] OTHER -> {}

\* the requests a caller can make: an action, one or more paths of which some
\* are files, the bytes to send, and the options
Requests ==
  {r \in [action : ActionInputs, nPaths : 1..MaxPaths, nValid : 0..MaxPaths,
          size : 0..MaxFile, options : [OptionKeys -> OptionValues],
          name : InputNames] :
     /\ r.nValid <= r.nPaths
     \* the name of the picked file is used for a single file only
     /\ (r.action = "merge" \/ r.nPaths # 1 \/ r.nValid # 1) => r.name = InputName
     /\ \A k \in OptionKeys \ KeysOf(r.action) : r.options[k] = None
     \* a request that fails before any byte of the file is read has no file to tell apart
     /\ (r.action = "merge" /\ r.nValid < 2) => r.size = 0
     /\ (r.action # "merge" /\ (r.nPaths # 1 \/ r.nValid # 1)) => r.size = 0
     \* the archive of two or more files is never empty
     /\ (r.action = "merge" /\ r.nValid >= 2) => r.size > 0}

\* the timeouts the programs give their sockets, in seconds
ConnectTimeout == 30        \* the client, while it connects
OperationTimeout == 600     \* the client, from then on
GeneralTimeout == 60        \* the server, from the accept on
ChunkReadTimeout == 120     \* the server, set before each receive of the payload
ProcessingTimeout == 600    \* the server, once the payload is complete

\* a receive of the payload made under the timeout the socket had before
PayloadRecvTimeout_Unset(timeout) == timeout

\* the timeout a receive of the payload is made under: settimeout(120.0) is
\* called in the loop before each recv
PayloadRecvTimeout(timeout) == ChunkReadTimeout

\* the timeout a receive of the result is made under: the client sets none
\* in its loop, so it is the one the socket has
ResultRecvTimeout(timeout) == timeout

InitClient(r) ==
  [pc |-> "start", action |-> r.action, nPaths |-> r.nPaths, nValid |-> r.nValid,
   options |-> r.options, name |-> r.name, file |-> FileBytes(r.size),
   size_field |-> "padded", bytes_sent |-> 0, optIdx |-> 0,
   output_filename_suggestion |-> <<>>, output_size |-> 0, output_data |-> <<>>,
   error_msg |-> <<>>, outcome |-> "none", ret |-> FALSE, saved |-> NoFile,
   closed |-> FALSE, rst |-> FALSE, timeout |-> 0]

InitServer ==
  [pc |-> "accept", action |-> "unknown", base_filename |-> <<>>, size |-> 0,
   input |-> NoFile, received_bytes |-> 0, optIdx |-> 0, options |-> NoOptions,
   output |-> NoFile, output_filename_suggestion |-> <<>>, output_size |-> 0,
   bytes_sent |-> 0, action_success |-> FALSE, handler |-> "none",
   raised |-> "none", sent_at_raise |-> 0,
   engine_calls |-> 0, closed |-> FALSE, rst |-> FALSE, sessions |-> 0, timeout |-> 0]

\* a bulk receive as the log keeps it: the bytes asked for, and the bytes that
\* were still missing when it was made
NoRequest == [asked |-> 0, missing |-> 0]

InitLog ==
  [csent |-> <<>>, cacks |-> <<>>, sacks |-> <<>>, ssent |-> <<>>, sreplies |-> <<>>,
   creq |-> NoRequest, sreq |-> NoRequest, crecv_timeouts |-> {}, srecv_timeouts |-> {},
   produced |-> NoFile,
   czero |-> FALSE, szero |-> FALSE, sempty |-> FALSE, ssize |-> "none"]

\* ------------------------------------------------------ workspace paths
\* A path under tempfile.gettempdir() is the sequence of the pieces it is
\* formatted from; a piece is text of the server, or text taken from the file
\* name the client sent.
Part(src, text) == [src |-> src, text |-> text]
FromClient(text) == Part("client", text)
FromServer(text) == Part("server", text)

\* the characters of a path
PathText(path) ==
  LET RECURSIVE Flat(_)
      Flat(q) == IF q = <<>> THEN <<>> ELSE Head(q).text \o Flat(Tail(q))
  IN  Flat(path)

\* a path variable that is None
NoPath == <<>>

\* os.getpid(), as text
Pid == <<"7">>

\* pid_suffix
PidSuffix == <<"_">> \o Pid

\* the file names a peer can send: the name of a picked file, the archive name
\* of a merge, a name with directories to climb, a name longer than the cap,
\* a name whose extension is the one of a converted document
WireNames ==
  {InputName,
   <<"x">> \o Chars_docx,
   Chars_merge_input_ \o StrOfCount(2) \o Chars_files_zip,
   <<"x", "/", ".", ".", "/", ".", ".", "/", "d", ".", "z", "i", "p">>,
   [i \in 1..(NameCap + 1) |-> "a"] \o Chars_pdf}

\* input_path, output_path and temp_dir_for_action of the path setup
WorkspacePaths(act, base_filename) ==
  LET input_filename_base == SplitExt(base_filename)[1]
      input_ext == SplitExt(base_filename)[2]
      safe_base == FromClient(SafeBase(input_filename_base))
      pid_suffix == PidSuffix
      suffix == IF act = "convert" THEN Chars_processed ELSE <<act>>
      input_path ==
        IF act = "merge"
          THEN <<safe_base, FromServer(pid_suffix \o Chars_zip)>>
          ELSE <<safe_base, FromServer(pid_suffix), FromClient(input_ext)>>
  IN  CASE act = "pdf_to_jpg" ->
             [input_path |-> input_path,
              output_path |-> <<safe_base, FromServer(Chars_images \o pid_suffix \o Chars_zip)>>,
              temp_dir_for_action |-> <<safe_base, FromServer(Chars_jpg_output \o pid_suffix)>>]
        [] act = "pdf_to_word" ->
             [input_path |-> input_path,
              output_path |-> <<safe_base, FromServer(pid_suffix \o Chars_docx)>>,
              temp_dir_for_action |-> NoPath]
        [] act = "pdf_to_pptx" ->
             [input_path |-> input_path,
              output_path |-> <<safe_base, FromServer(pid_suffix \o Chars_pptx)>>,
              temp_dir_for_action |-> <<safe_base, FromServer(Chars_pptx_temp_imgs \o pid_suffix)>>]
        [] act = "split" ->
             [input_path |-> input_path,
              output_path |-> <<safe_base, FromServer(Chars_split_files \o pid_suffix \o Chars_zip)>>,
              temp_dir_for_action |-> <<safe_base, FromServer(Chars_split_output \o pid_suffix)>>]
        [] act = "merge" ->
             \* f"merged_{input_filename_base}"[:50]
             [input_path |-> input_path,
              output_path |->
                <<FromServer(Take(Chars_merged_, Min(NameCap, Len(Chars_merged_)))),
                  FromClient(Take(input_filename_base,
                                  Min(Len(input_filename_base),
                                      IF NameCap > Len(Chars_merged_)
                                        THEN NameCap - Len(Chars_merged_) ELSE 0))),
                  FromServer(pid_suffix \o Chars_pdf)>>,
              temp_dir_for_action |-> NoPath]
        [] OTHER ->
             [input_path |-> input_path,
              output_path |-> <<safe_base, FromServer(<<"_">> \o suffix \o pid_suffix \o Chars_pdf)>>,
              temp_dir_for_action |-> NoPath]

\* the locals as every pass of the accept loop sets them before its try
FreshLocals ==
  [action |-> "unknown", base_filename |-> <<>>, input_path |-> NoPath,
   output_path |-> NoPath, temp_dir_for_action |-> NoPath, action_success |-> FALSE]

LocalsOf(l) ==
  [action |-> l.action, base_filename |-> l.base_filename, input_path |-> l.input_path,
   output_path |-> l.output_path, temp_dir_for_action |-> l.temp_dir_for_action,
   action_success |-> l.action_success]

\* s.listen(): no connection has been made
InitListen == [opened |-> 0, waiting |-> 0]

\* the loop before its first accept
InitLoop ==
  [pc |-> "accept", action |-> "unknown", base_filename |-> <<>>, input_path |-> NoPath,
   output_path |-> NoPath, temp_dir_for_action |-> NoPath, action_success |-> FALSE,
   exit |-> "none", served |-> 0, last_exit |-> "none", made |-> {}]

Init ==
  /\ \E r \in Requests : client = InitClient(r)
  /\ server = InitServer
  /\ c2s = <<>>
  /\ s2c = <<>>
  /\ conn = "none"
  /\ log = InitLog
  /\ listen = InitListen
  /\ loop = InitLoop
  /\ temp = {}
  /\ call = NoCall

\* ----------------------------------------------------------------- client
Truthy(v) == v # None /\ v # ""

\* str(x) of an option value
PyStr(v) == IF v = None THEN "None" ELSE v

\* the option fields the client sends for an action, and the ACK it expects for each
ClientOptionFields(a) ==
  CASE a \in {"encrypt", "decrypt"} -> <<[key |-> "password", ack |-> "ACK_PASS"]>>
    [] a = "split" -> <<[key |-> "ranges", ack |-> "ACK_RANGES"]>>
    [] a = "rotate" -> <<[key |-> "pages", ack |-> "ACK_PAGES"],
                         [key |-> "angle", ack |-> "ACK_ANGLE"]>>
    [] a = "add_numbers" -> <<[key |-> "position", ack |-> "ACK_POSITION"]>>
    [] OTHER -> <<>>

\* the client's check of the options, made where it is about to send the first field
ClientOptionsGiven(a, o) ==
  CASE a \in {"encrypt", "decrypt"} -> o["password"] # None
    [] a = "split" -> Truthy(o["ranges"])
    [] a = "rotate" -> Truthy(o["pages"]) /\ Truthy(PyStr(o["angle"]))
    [] a = "add_numbers" -> Truthy(o["position"])
    [] OTHER -> TRUE

\* the text the client sends for a field
ClientFieldValue(o, key) == IF key = "angle" THEN PyStr(o["angle"]) ELSE o[key]

\* the check of the file arguments, made after the action has been acknowledged
ClientInputValid(a, nPaths, nValid) ==
  IF a = "merge" THEN nPaths >= 2 /\ nValid >= 2 ELSE nPaths = 1 /\ nValid = 1

\* filename_for_server
FilenameForServer(a, nValid, name) ==
  IF a = "merge" THEN Chars_merge_input_ \o StrOfCount(nValid) \o Chars_files_zip
                 ELSE name

\* `ack != b'ACK_...'`: the received bytes are exactly the token
AckMatches(got, name) == got = <<Ack(name)>>

\* the exception a failed receive raises, as the outcome the except clauses give it
ClientRecvFailure(r) == IF r.st = "timeout" THEN "timeout" ELSE "connlost"

\* the finally clause: the socket is shut down and closed; what the client has
\* not read is thrown away, and the server's next call finds the connection reset
CEnd(cl, unread) ==
  /\ client' = [cl EXCEPT !.pc = "done", !.closed = TRUE]
  /\ s2c' = <<>>
  /\ server' = [server EXCEPT !.rst = @ \/ (~server.closed /\ unread # <<>>)]

\* sendall(toks) and then the state cl; a sendall that raises ends the request
CSend(toks, cl, rest, lg) ==
  \E sr \in SendResults(c2s, toks, server.closed, client.rst) :
     IF sr.ok
       THEN /\ client' = [cl EXCEPT !.rst = sr.rst]
            /\ c2s' = sr.chan
            /\ s2c' = rest
            /\ log' = lg
            /\ UNCHANGED server
       ELSE /\ \E o \in {"connlost", "error"} : CEnd([client EXCEPT !.outcome = o], rest)
            /\ c2s' = sr.chan
            /\ log' = lg

CFail(outcome, rest) ==
  /\ CEnd([client EXCEPT !.outcome = outcome], rest)
  /\ UNCHANGED <<c2s, log>>

\* lines 98-109: connect and send the action
CConnect ==
  /\ UNCHANGED <<dvars, evars>>
  /\ client.pc = "start"
  /\ conn = "none"
  /\ conn' = "pending"
  /\ CSend(<<ActionTok(client.action)>>,
           [client EXCEPT !.pc = "ack_action", !.timeout = OperationTimeout], s2c,
           [log EXCEPT !.csent = Append(@, "action")])

\* lines 100-103 and 243: nothing listens on the port; connect raises
\* ConnectionRefusedError and the call is over
CConnectRefused ==
  /\ UNCHANGED <<dvars, evars>>
  /\ client.pc = "start"
  /\ conn = "none"
  /\ UNCHANGED <<conn, c2s, log>>
  /\ CEnd([client EXCEPT !.outcome = "refused", !.timeout = ConnectTimeout], s2c)

\* lines 110-137: the ACK of the action, the file arguments, the file name
CRecvAckAction ==
  /\ UNCHANGED <<dvars, evars>>
  /\ client.pc = "ack_action"
  /\ UNCHANGED conn
  /\ \E r \in RecvResults(s2c, server.closed, client.rst, TokenTakes(s2c)) :
       IF r.st # "data" \/ ~AckMatches(r.d, "ACK_ACTION")
         THEN CFail(ClientRecvFailure(r), r.rest)
         ELSE IF ~ClientInputValid(client.action, client.nPaths, client.nValid)
           THEN /\ CEnd([client EXCEPT !.outcome = "input_error"], r.rest)
                /\ log' = [log EXCEPT !.cacks = Append(@, "ACK_ACTION")]
                /\ UNCHANGED c2s
           ELSE CSend(<<Tok("filename", FilenameForServer(client.action, client.nValid, client.name), 0)>>,
                      [client EXCEPT !.pc = "ack_filename"], r.rest,
                      [log EXCEPT !.cacks = Append(@, "ACK_ACTION"),
                                  !.csent = Append(@, "filename")])

\* lines 138-144: the ACK of the file name, the size field
CRecvAckFilename ==
  /\ UNCHANGED <<dvars, evars>>
  /\ client.pc = "ack_filename"
  /\ UNCHANGED conn
  /\ \E r \in RecvResults(s2c, server.closed, client.rst, TokenTakes(s2c)) :
       IF r.st # "data" \/ ~AckMatches(r.d, "ACK_FILENAME")
         THEN CFail(ClientRecvFailure(r), r.rest)
         ELSE CSend(<<RawSizeTok(client.size_field, Len(client.file))>>,
                    [client EXCEPT !.pc = "ack_size"], r.rest,
                    [log EXCEPT !.cacks = Append(@, "ACK_FILENAME"),
                                !.csent = Append(@, "size")])

\* lines 145-149: the ACK of the size; the file is opened for sending
CRecvAckSize ==
  /\ UNCHANGED <<dvars, evars>>
  /\ client.pc = "ack_size"
  /\ UNCHANGED <<conn, c2s>>
  /\ \E r \in RecvResults(s2c, server.closed, client.rst, TokenTakes(s2c)) :
       IF r.st # "data" \/ ~AckMatches(r.d, "ACK_SIZE")
         THEN CFail(ClientRecvFailure(r), r.rest)
         ELSE /\ client' = [client EXCEPT !.pc = "send_data", !.bytes_sent = 0]
              /\ s2c' = r.rest
              /\ log' = [log EXCEPT !.cacks = Append(@, "ACK_SIZE"),
                                    !.csent = Append(@, "payload")]
              /\ UNCHANGED server

\* f.read(65536) of the send loops: the next chunk of a file
ReadChunk(file, offset) == SubSeq(file, offset + 1, Min(Len(file), offset + ChunkSize))

\* lines 150-153: one chunk of the file
CSendChunk ==
  /\ UNCHANGED <<dvars, evars>>
  /\ client.pc = "send_data"
  /\ client.bytes_sent < Len(client.file)
  /\ UNCHANGED conn
  /\ LET chunk == ReadChunk(client.file, client.bytes_sent)
     IN  CSend(chunk, [client EXCEPT !.bytes_sent = @ + Len(chunk)], s2c, log)

\* sendall of a chunk blocks until the socket's timeout (600 s) and raises
CSendTimeout ==
  /\ UNCHANGED <<dvars, evars>>
  /\ client.pc = "send_data"
  /\ client.bytes_sent < Len(client.file)
  /\ ~server.closed
  /\ UNCHANGED conn
  /\ CFail("timeout", s2c)

\* the field the client sends as its i-th option, or the result wait when there is none
COptionStep(i, rest, lg) ==
  LET fields == ClientOptionFields(client.action)
  IN  IF i > Len(fields)
        THEN /\ client' = [client EXCEPT !.pc = "out_filename", !.optIdx = i - 1]
             /\ s2c' = rest
             /\ log' = lg
             /\ UNCHANGED <<server, c2s>>
        ELSE CSend(Wire(FieldTok(ClientFieldValue(client.options, fields[i].key))),
                   [client EXCEPT !.pc = "ack_option", !.optIdx = i], rest,
                   [lg EXCEPT !.csent = Append(@, fields[i].key)])

\* lines 152-183, first part: the file is exhausted; the options are checked
\* and the first field is sent
CSendOptions ==
  /\ UNCHANGED <<dvars, evars>>
  /\ client.pc = "send_data"
  /\ client.bytes_sent >= Len(client.file)
  /\ UNCHANGED conn
  /\ IF ~ClientOptionsGiven(client.action, client.options)
       THEN CFail("input_error", s2c)
       ELSE COptionStep(1, s2c, log)

\* lines 161-183: the ACK of a field, then the next field
CRecvAckOption ==
  /\ UNCHANGED <<dvars, evars>>
  /\ client.pc = "ack_option"
  /\ UNCHANGED conn
  /\ LET want == ClientOptionFields(client.action)[client.optIdx].ack
     IN  \E r \in RecvResults(s2c, server.closed, client.rst, TokenTakes(s2c)) :
           IF r.st # "data" \/ ~AckMatches(r.d, want)
             THEN CFail(ClientRecvFailure(r), r.rest)
             ELSE COptionStep(client.optIdx + 1, r.rest,
                              [log EXCEPT !.cacks = Append(@, want)])

\* the text of received bytes: the characters of the names in it; any other
\* token counts as one piece that is no character
TextOf(got) ==
  LET RECURSIVE Flat(_)
      Flat(q) == IF q = <<>> THEN <<>>
                 ELSE (IF Head(q).k \in {"name", "filename"} THEN Head(q).s ELSE <<Head(q).s>>)
                      \o Flat(Tail(q))
  IN  Flat(got)

\* int(b.decode().strip()) of a received size field: <<TRUE, n>>, or
\* <<FALSE, 0>> when it raises ValueError
ParseSize(got) ==
  IF Len(got) = 1 /\ got[1].k = "size" /\ got[1].s # "text"
    THEN <<TRUE, got[1].n>> ELSE <<FALSE, 0>>

\* a receive loop that forgets what it has received already
RecvRequest_IgnoresReceived(size, received_bytes) == Min(ChunkSize, size)

\* the argument of recv in both receive loops
RecvRequest(size, received_bytes) == Min(ChunkSize, size - received_bytes)

\* a receive loop without the check for an empty chunk
IsDisconnect_Never(chunk) == FALSE

\* `if not chunk: raise ConnectionAbortedError` of both receive loops
IsDisconnect(chunk) == chunk = <<>>

\* a receive loop that is left after its first chunk
LoopDone_AfterFirstChunk(received_bytes, size) == TRUE

\* `while received_bytes < size` of both receive loops: the loop is left
LoopDone(received_bytes, size) == ~(received_bytes < size)

\* a receive loop that keeps the last chunk only (`=` for `+=`)
StoreChunk_Overwrite(stored, chunk) == chunk

\* `f.write(chunk)` and `output_data += chunk`: what is stored after a chunk
StoreChunk(stored, chunk) == stored \o chunk

\* sendall(toks), and the request is over with outcome o
CSendEnd(toks, cl, rest, lg) ==
  \E sr \in SendResults(c2s, toks, server.closed, client.rst) :
     /\ c2s' = sr.chan
     /\ log' = lg
     /\ IF sr.ok
          THEN CEnd([cl EXCEPT !.rst = sr.rst], rest)
          ELSE \E o \in {"connlost", "error"} : CEnd([client EXCEPT !.outcome = o], rest)

\* lines 188-193: the suggested name of the result
CRecvOutFilename ==
  /\ UNCHANGED <<dvars, evars>>
  /\ client.pc = "out_filename"
  /\ UNCHANGED conn
  /\ \E r \in RecvResults(s2c, server.closed, client.rst, TokenTakes(s2c)) :
       IF r.st # "data"
         THEN CFail(ClientRecvFailure(r), r.rest)
         ELSE CSend(<<Ack("ACK_OUT_FILENAME")>>,
                    [client EXCEPT !.pc = "out_size",
                                   !.output_filename_suggestion = TextOf(r.d)],
                    r.rest, [log EXCEPT !.csent = Append(@, "ACK_OUT_FILENAME")])

\* lines 195-211: the size of the result, and what a size of 0 means
CRecvOutSize ==
  /\ UNCHANGED <<dvars, evars>>
  /\ client.pc = "out_size"
  /\ UNCHANGED conn
  /\ \E r \in RecvResults(s2c, server.closed, client.rst, SizeTakes(s2c)) :
       IF r.st # "data"
         THEN CFail(ClientRecvFailure(r), r.rest)
         ELSE IF ~ParseSize(r.d)[1]
           THEN CFail("input_error", r.rest)
           ELSE LET n == ParseSize(r.d)[2]
                    cl == [client EXCEPT !.output_size = n]
                    lg == [log EXCEPT !.csent = Append(@, "ACK_OUT_SIZE")]
                IN  IF n = 0 /\ HasErrorSentinel(client.output_filename_suggestion)
                      THEN CSend(<<Ack("ACK_OUT_SIZE")>>, [cl EXCEPT !.pc = "error_msg"],
                                 r.rest, lg)
                      ELSE IF n = 0
                        THEN CSendEnd(<<Ack("ACK_OUT_SIZE")>>,
                                      [cl EXCEPT !.outcome = "empty", !.ret = TRUE],
                                      r.rest, lg)
                        ELSE CSend(<<Ack("ACK_OUT_SIZE")>>, [cl EXCEPT !.pc = "out_data"],
                                   r.rest, lg)

\* lines 204-206: the error message of a failed request
CRecvErrorMsg ==
  /\ UNCHANGED <<dvars, evars>>
  /\ client.pc = "error_msg"
  /\ UNCHANGED <<conn, c2s, log>>
  /\ \E r \in RecvResults(s2c, server.closed, client.rst, TokenTakes(s2c)) :
       IF r.st \in {"timeout", "reset"}
         THEN CEnd([client EXCEPT !.outcome = ClientRecvFailure(r)], r.rest)
         ELSE CEnd([client EXCEPT !.outcome = "server_error", !.error_msg = TextOf(r.d)],
                   r.rest)

\* lines 217-220: one receive of the result
CRecvOutData ==
  /\ UNCHANGED <<dvars, evars>>
  /\ client.pc = "out_data"
  /\ UNCHANGED <<conn, c2s>>
  /\ LET received_bytes == Len(client.output_data)
         asked == RecvRequest(client.output_size, received_bytes)
     IN  \E r \in RecvResults(s2c, server.closed, client.rst, BulkTakes(s2c, asked)) :
           /\ log' = [log EXCEPT !.creq = [asked |-> asked,
                                           missing |-> client.output_size - received_bytes],
                                 !.crecv_timeouts = @ \cup {ResultRecvTimeout(client.timeout)},
                                 !.czero = @ \/ r.st = "eof"]
           /\ IF r.st \in {"timeout", "reset"} \/ IsDisconnect(r.d)
                THEN CEnd([client EXCEPT !.outcome = ClientRecvFailure(r)], r.rest)
                ELSE /\ client' =
                          [client EXCEPT !.output_data = StoreChunk(@, r.d),
                                         !.pc = IF LoopDone(received_bytes + Len(r.d),
                                                            client.output_size)
                                                  THEN "save" ELSE "out_data"]
                     /\ s2c' = r.rest
                     /\ UNCHANGED server

\* lines 223-240: the save dialog; the result is written, or the user cancels
CSave ==
  /\ UNCHANGED <<dvars, evars>>
  /\ client.pc = "save"
  /\ UNCHANGED <<conn, c2s, log>>
  /\ \E save_path \in BOOLEAN :
       IF save_path
         THEN CEnd([client EXCEPT !.saved = FileOf(client.output_data),
                                  !.outcome = "saved", !.ret = TRUE], s2c)
         ELSE CEnd([client EXCEPT !.outcome = "cancelled"], s2c)

\* lines 296-306 of handle_upload, the caller: what it writes on the status
\* label for the value send_request_to_server returned
StatusLabel(success, is_multiple) ==
  IF success THEN "Completed"
  ELSE IF ~is_multiple THEN "Save Cancelled" ELSE "Merge Cancelled/Failed"

\* ----------------------------------------------------------------- server
\* the option fields the server reads for an action, and the ACK it sends for each
ServerOptionFields(a) ==
  CASE a \in {"encrypt", "decrypt"} -> <<[key |-> "password", ack |-> "ACK_PASS"]>>
    [] a = "split" -> <<[key |-> "ranges", ack |-> "ACK_RANGES"]>>
    [] a = "rotate" -> <<[key |-> "pages", ack |-> "ACK_PAGES"],
                         [key |-> "angle", ack |-> "ACK_ANGLE"]>>
    [] a = "add_numbers" -> <<[key |-> "position", ack |-> "ACK_POSITION"]>>
    [] OTHER -> <<>>

\* a server that acknowledges the file name with the ACK of the size
ServerAckOf_Shifted(step) ==
  CASE step = "action" -> "ACK_ACTION"
    [] step = "filename" -> "ACK_SIZE"
    [] step = "size" -> "ACK_SIZE"

\* the ACK the server sends for each of the first three steps
ServerAckOf(step) ==
  CASE step = "action" -> "ACK_ACTION"
    [] step = "filename" -> "ACK_FILENAME"
    [] step = "size" -> "ACK_SIZE"

\* bytes.decode() of a received short field
DecodeField(got, kind) ==
  IF got = <<>> THEN ""
  ELSE IF Len(got) = 1 /\ got[1].k = kind THEN got[1].s ELSE "<garbled>"

\* a server without the check for an empty field
FieldMissing_Never(got) == FALSE

\* `if not pass_bytes: raise ConnectionAbortedError` and its four likes
FieldMissing(got) == got = <<>>

\* the finally clause and the end of `with conn`: the temporary files are
\* removed and the connection is closed; what the server has not read is
\* thrown away, and the client's next call finds the connection reset
SEnd(sv, unread) ==
  /\ server' = [sv EXCEPT !.pc = "accept", !.closed = TRUE, !.input = NoFile,
                          !.output = NoFile, !.sessions = @ + 1]
  /\ c2s' = <<>>
  /\ client' = [client EXCEPT !.rst = @ \/ (~client.closed /\ unread # <<>>)]

\* what the server has sent in the session sv, by the log lg: ACKs, frames of
\* the result leg, bytes of the output file
FramesSent(sv, lg) == Len(lg.sacks) + Len(lg.ssent) + sv.bytes_sent

\* the session sv at the moment its try block, or an except clause, raises
Raising(raised, sv, lg) ==
  [sv EXCEPT !.raised = raised, !.sent_at_raise = FramesSent(sv, lg)]

\* sendall(toks) and then the state sv; a sendall that raises ends the session
SSend(toks, sv, rest, lg) ==
  \E sr \in SendResults(s2c, toks, client.closed, server.rst) :
     /\ s2c' = sr.chan
     /\ log' = lg
     /\ IF sr.ok
          THEN /\ server' = [sv EXCEPT !.rst = sr.rst]
               /\ c2s' = rest
               /\ UNCHANGED client
          ELSE SEnd([Raising("reset", sv, lg) EXCEPT
                        !.handler = IF @ = "none" THEN "net" ELSE @], rest)

\* sendall(toks), and the session is over
SSendEnd(toks, sv, rest, lg) ==
  \E sr \in SendResults(s2c, toks, client.closed, server.rst) :
     /\ s2c' = sr.chan
     /\ log' = lg
     /\ SEnd([sv EXCEPT !.rst = sr.rst], rest)

\* a server that reports a failure only when the action had succeeded
SendsEnvelope_Inverted(handler, action_success) == handler = "fnf" \/ action_success

\* whether an except clause sends the error envelope: the one for
\* FileNotFoundError always, the general one `if not action_success`
SendsEnvelope(handler, action_success) == handler = "fnf" \/ ~action_success

\* the except clauses for anything but a network error start the error
\* envelope: the sentinel name is sent and a reply awaited
SErrorEnvelope(handler, sv, rest, lg) ==
  IF SendsEnvelope(handler, sv.action_success)
    THEN SSend(<<NameTok(IF handler = "fnf" THEN Chars_error_file_not_found_bin
                                            ELSE Chars_error_processing_bin)>>,
               [sv EXCEPT !.pc = "err_name", !.handler = handler], rest,
               [lg EXCEPT !.ssent = Append(@, "errname")])
    ELSE /\ SEnd([sv EXCEPT !.handler = handler], rest)
         /\ log' = lg
         /\ UNCHANGED s2c

\* a server that takes every exception to the clause for FileNotFoundError,
\* which sends the envelope whatever was sent before
HandlerOf_AlwaysNotFound(raised) == "fnf"

\* a server whose first except clause does not name socket.timeout
HandlerOf_TimeoutUncaught(raised) ==
  CASE raised \in {"reset", "eof", "badack"} -> "net"
    [] raised = "fnf" -> "fnf"
    [] OTHER -> "generic"

\* The except clause that catches what the try block raised: socket.timeout,
\* ConnectionResetError and the server's own ConnectionAbortedError (for a
\* peer that is gone, "eof", and for an ACK that is not the one awaited,
\* "badack") go to the first clause, FileNotFoundError to the second,
\* anything else to the third.
HandlerOf(raised) ==
  CASE raised \in {"timeout", "reset", "eof", "badack"} -> "net"
    [] raised = "fnf" -> "fnf"
    [] OTHER -> "generic"

\* the try block raises: the first except clause sends nothing, the others
\* start the error envelope
SRaise(raised, sv, rest, lg) ==
  IF HandlerOf(raised) = "net"
    THEN /\ SEnd([Raising(raised, sv, lg) EXCEPT !.handler = "net"], rest)
         /\ log' = lg
         /\ UNCHANGED s2c
    ELSE SErrorEnvelope(HandlerOf(raised), Raising(raised, sv, lg), rest, lg)

\* a receive of the try block fails: the peer is gone, the timeout has passed,
\* or the connection was reset
SNetFail(raised, rest) == SRaise(raised, server, rest, log)

\* lines 530-543: a connection is accepted
SAccept ==
  /\ UNCHANGED <<dvars, evars>>
  /\ server.pc = "accept"
  /\ conn = "pending"
  /\ conn' = "accepted"
  /\ server' = [InitServer EXCEPT !.pc = "action", !.sessions = server.sessions,
                                   !.timeout = GeneralTimeout]
  /\ UNCHANGED <<client, c2s, s2c, log>>

\* lines 544-549: the action
SRecvAction ==
  /\ UNCHANGED <<dvars, evars>>
  /\ server.pc = "action"
  /\ UNCHANGED conn
  /\ \E r \in RecvResults(c2s, client.closed, server.rst, TokenTakes(c2s)) :
       IF r.st # "data"
         THEN SNetFail(r.st, r.rest)
         ELSE SSend(<<Ack(ServerAckOf("action"))>>,
                    [server EXCEPT !.pc = "filename", !.action = DecodeField(r.d, "action")],
                    r.rest, [log EXCEPT !.sacks = Append(@, ServerAckOf("action"))])

\* lines 551-597: the file name and the paths made from it
SRecvFilename ==
  /\ UNCHANGED <<dvars, evars>>
  /\ server.pc = "filename"
  /\ UNCHANGED conn
  /\ \E r \in RecvResults(c2s, client.closed, server.rst, TokenTakes(c2s)) :
       IF r.st # "data"
         THEN SNetFail(r.st, r.rest)
         ELSE SSend(<<Ack(ServerAckOf("filename"))>>,
                    [server EXCEPT !.pc = "size", !.base_filename = TextOf(r.d),
                                   !.output_filename_suggestion =
                                       SuggestedName(server.action, TextOf(r.d))],
                    r.rest, [log EXCEPT !.sacks = Append(@, ServerAckOf("filename"))])

\* a server that goes to the engine without reading the options
AfterData_SkipsOptions(a) == "process"

\* where the server goes once the payload is complete
AfterData(a) == IF ServerOptionFields(a) = <<>> THEN "process" ELSE "option"

\* lines 599-609: the size field; the input file is created
SRecvSize ==
  /\ UNCHANGED <<dvars, evars>>
  /\ server.pc = "size"
  /\ UNCHANGED conn
  /\ \E r \in RecvResults(c2s, client.closed, server.rst, SizeTakes(c2s)) :
       IF r.st # "data"
         THEN SNetFail(r.st, r.rest)
         ELSE LET lg == [log EXCEPT !.ssize = IF Len(r.d) = 1 /\ r.d[1].k = "size"
                                                 THEN r.d[1].s ELSE "text"]
              IN  IF ~ParseSize(r.d)[1]
                    THEN SRaise("value", server, r.rest, lg)
                    ELSE LET size == ParseSize(r.d)[2]
                         IN  SSend(<<Ack(ServerAckOf("size"))>>,
                                   [server EXCEPT !.size = size, !.input = FileOf(<<>>),
                                                  !.received_bytes = 0,
                                                  !.timeout = IF 0 < size THEN @
                                                              ELSE ProcessingTimeout,
                                                  !.pc = IF 0 < size THEN "data"
                                                         ELSE AfterData(server.action)],
                                   r.rest,
                                   [lg EXCEPT !.sacks = Append(@, ServerAckOf("size"))])

\* lines 610-619: one receive of the payload
SRecvData ==
  /\ UNCHANGED <<dvars, evars>>
  /\ server.pc = "data"
  /\ UNCHANGED conn
  /\ LET asked == RecvRequest(server.size, server.received_bytes)
     IN  \E r \in RecvResults(c2s, client.closed, server.rst, BulkTakes(c2s, asked)) :
           LET lg == [log EXCEPT !.sreq = [asked |-> asked,
                                           missing |-> server.size - server.received_bytes],
                                 !.srecv_timeouts = @ \cup {PayloadRecvTimeout(server.timeout)},
                                 !.szero = @ \/ r.st = "eof"]
           IN  IF r.st \in {"timeout", "reset"} \/ IsDisconnect(r.d)
                THEN SRaise(IF r.st = "data" THEN "eof" ELSE r.st,
                            [server EXCEPT !.timeout = PayloadRecvTimeout(@)], r.rest, lg)
                ELSE /\ log' = lg
                     /\ UNCHANGED s2c
                     /\ server' =
                          [server EXCEPT !.input = FileOf(StoreChunk(@.data, r.d)),
                                         !.received_bytes = @ + Len(r.d),
                                         !.timeout = IF LoopDone(server.received_bytes + Len(r.d),
                                                                 server.size)
                                                       THEN ProcessingTimeout
                                                       ELSE PayloadRecvTimeout(@),
                                         !.pc = IF LoopDone(server.received_bytes + Len(r.d),
                                                            server.size)
                                                  THEN AfterData(server.action) ELSE "data"]
                     /\ c2s' = r.rest
                     /\ UNCHANGED client

\* lines 621-652: one option field: received, acknowledged, and only then
\* checked for being empty
SRecvOption ==
  /\ UNCHANGED <<dvars, evars>>
  /\ server.pc = "option"
  /\ UNCHANGED conn
  /\ LET fields == ServerOptionFields(server.action)
         i == server.optIdx + 1
     IN  \E r \in RecvResults(c2s, client.closed, server.rst, TokenTakes(c2s)) :
         LET lg == [log EXCEPT !.sacks = Append(@, fields[i].ack),
                               !.sempty = @ \/ r.d = <<>>]
         IN  IF r.st \in {"timeout", "reset"}
               THEN SNetFail(r.st, r.rest)
               ELSE IF FieldMissing(r.d)
                 THEN SSendEnd(<<Ack(fields[i].ack)>>,
                               [Raising("eof", server, lg) EXCEPT !.handler = "net"],
                               r.rest, lg)
                 ELSE
                  SSend(<<Ack(fields[i].ack)>>,
                        [server EXCEPT !.optIdx = i,
                                       !.options[fields[i].key] = DecodeField(r.d, "field"),
                                       !.pc = IF i < Len(fields) THEN "option" ELSE "process"],
                        r.rest, lg)

\* what one call of the processing engine can come to: it writes an output
\* file of some length, it returns without having written one, it raises, or
\* what it raises is a FileNotFoundError
EngineOutcomes ==
  {[kind |-> "ok", size |-> n] : n \in 0..MaxOut}
    \cup {[kind |-> "nofile", size |-> 0], [kind |-> "error", size |-> 0],
          [kind |-> "error_fnf", size |-> 0]}

\* a server that takes the output file for present whenever the engine returned
OutputMissing_Never(output) == FALSE

\* `if not os.path.exists(output_path)`
OutputMissing(output) == ~output.exists

\* a dispatch whose last branch runs the engine instead of raising
IsKnownAction_Any(a) == TRUE

\* lines 656-687: the action is one the if/elif chain has a branch for; for any
\* other the else branch raises ValueError
IsKnownAction(a) == a \in Actions

\* lines 654-698: the action is dispatched to the engine and the first frame of
\* the result is sent: the suggested name, or the sentinel name of an error
SProcess ==
  /\ UNCHANGED <<dvars, evars>>
  /\ server.pc = "process"
  /\ UNCHANGED conn
  /\ IF ~IsKnownAction(server.action)
       THEN SRaise("value", server, c2s, log)
       ELSE \E e \in EngineOutcomes :
              LET called == [server EXCEPT !.engine_calls = @ + 1]
                  output == IF e.kind = "ok" THEN FileOf(OutBytes(e.size)) ELSE NoFile
                  returned == [called EXCEPT !.action_success = TRUE, !.output = output]
              IN  CASE e.kind = "error" -> SRaise("engine", called, c2s, log)
                    [] e.kind = "error_fnf" -> SRaise("fnf", called, c2s, log)
                    [] OTHER ->
                         IF OutputMissing(output)
                           THEN SRaise("fnf", returned, c2s, log)
                           ELSE SSend(<<NameTok(server.output_filename_suggestion)>>,
                                      [returned EXCEPT !.pc = "ack_out_filename"],
                                      c2s,
                                      [log EXCEPT !.ssent = Append(@, "name"),
                                                  !.produced = output])

\* `not ack or ack != b'ACK_...'` of the result leg
ServerAckMatches(got, name) == got = <<Ack(name)>>

\* lines 699-704: the ACK of the name, then the size field of the output file
SRecvAckOutFilename ==
  /\ UNCHANGED <<dvars, evars>>
  /\ server.pc = "ack_out_filename"
  /\ UNCHANGED conn
  /\ \E r \in RecvResults(c2s, client.closed, server.rst, TokenTakes(c2s)) :
       IF r.st # "data" \/ ~ServerAckMatches(r.d, "ACK_OUT_FILENAME")
         THEN SRaise(IF r.st = "data" THEN "badack" ELSE r.st, server, r.rest,
                     [log EXCEPT !.sreplies = Append(@, FALSE)])
         ELSE LET output_size == Len(server.output.data)
              IN  SSend(<<SizeTok(output_size)>>,
                        [server EXCEPT !.pc = "ack_out_size", !.output_size = output_size],
                        r.rest,
                        [log EXCEPT !.sreplies = Append(@, TRUE),
                                    !.ssent = Append(@, "size")])

\* lines 705-709: the ACK of the size; the output file is opened for sending
SRecvAckOutSize ==
  /\ UNCHANGED <<dvars, evars>>
  /\ server.pc = "ack_out_size"
  /\ UNCHANGED conn
  /\ \E r \in RecvResults(c2s, client.closed, server.rst, TokenTakes(c2s)) :
       IF r.st # "data" \/ ~ServerAckMatches(r.d, "ACK_OUT_SIZE")
         THEN SRaise(IF r.st = "data" THEN "badack" ELSE r.st, server, r.rest,
                     [log EXCEPT !.sreplies = Append(@, FALSE)])
         ELSE /\ log' = [log EXCEPT !.sreplies = Append(@, TRUE)]
              /\ UNCHANGED s2c
              /\ IF server.output.data = <<>>
                   THEN SEnd(server, r.rest)
                   ELSE /\ server' = [server EXCEPT !.pc = "send_out", !.bytes_sent = 0]
                        /\ c2s' = r.rest
                        /\ UNCHANGED client

\* lines 710-717: one chunk of the output file; after the last one the session ends
SSendChunk ==
  /\ UNCHANGED <<dvars, evars>>
  /\ server.pc = "send_out"
  /\ UNCHANGED conn
  /\ LET chunk == ReadChunk(server.output.data, server.bytes_sent)
         sv == [server EXCEPT !.bytes_sent = @ + Len(chunk)]
         lg == [log EXCEPT !.ssent = IF server.bytes_sent = 0 THEN Append(@, "data") ELSE @]
     IN  IF server.bytes_sent + Len(chunk) < Len(server.output.data)
           THEN SSend(chunk, sv, c2s, lg)
           ELSE SSendEnd(chunk, sv, c2s, lg)

\* sendall of a chunk blocks until the socket's timeout (600 s) and raises
SSendTimeout ==
  /\ UNCHANGED <<dvars, evars>>
  /\ server.pc = "send_out"
  /\ ~client.closed
  /\ UNCHANGED conn
  /\ SNetFail("timeout", c2s)

\* lines 725-726 and 735-736: whatever comes back for the sentinel name, the
\* size field 0 is sent next
SErrNameReply ==
  /\ UNCHANGED <<dvars, evars>>
  /\ server.pc = "err_name"
  /\ UNCHANGED conn
  /\ \E r \in RecvResults(c2s, client.closed, server.rst, TokenTakes(c2s)) :
       IF r.st \in {"timeout", "reset"}
         THEN SEnd(Raising(r.st, server, log), r.rest) /\ UNCHANGED <<s2c, log>>
         ELSE SSend(<<SizeTok(0)>>, [server EXCEPT !.pc = "err_size"], r.rest,
                    [log EXCEPT !.sreplies = Append(@, ServerAckMatches(r.d, "ACK_OUT_FILENAME")),
                                !.ssent = Append(@, "errsize")])

\* lines 726-728 and 736-739: whatever comes back for the size, the error
\* message is sent, and the session ends
SErrSizeReply ==
  /\ UNCHANGED <<dvars, evars>>
  /\ server.pc = "err_size"
  /\ UNCHANGED conn
  /\ \E r \in RecvResults(c2s, client.closed, server.rst, TokenTakes(c2s)) :
       IF r.st \in {"timeout", "reset"}
         THEN SEnd(Raising(r.st, server, log), r.rest) /\ UNCHANGED <<s2c, log>>
         ELSE SSendEnd(<<MsgTok("ERROR")>>, server, r.rest,
                       [log EXCEPT !.sreplies = Append(@, ServerAckMatches(r.d, "ACK_OUT_SIZE")),
                                   !.ssent = Append(@, "errmsg")])

\* ------------------------------------------------------- the accept loop
\* The loop of server_program over several connections.  What a session says
\* on the wire is in the actions above; here a session is its workspace: the
\* paths it builds, the files it makes, the way it ends and what is left.

\* a file or directory is made at a path
Create(files, path) == IF path = NoPath THEN files ELSE files \cup {PathText(path)}

\* a finally clause that forgets the output file
Cleanup_KeepsOutput(files, l) ==
  files \ {PathText(path) : path \in {l.input_path, l.temp_dir_for_action} \ {NoPath}}

\* the finally clause: input_path and output_path are removed when they are
\* files, temp_dir_for_action when it is a directory
Cleanup(files, l) ==
  files \ {PathText(path) :
             path \in {l.input_path, l.output_path, l.temp_dir_for_action} \ {NoPath}}

\* a loop that keeps the locals of the session before
AcceptLocals_Kept(l) == LocalsOf(l)

\* lines 536-541: the locals a newly accepted connection starts with
AcceptLocals(l) == FreshLocals

\* os.path.basename
Basename(text) == Drop(text, RFind(text, {"\\", "/"}))

\* temp_extract_dir of merge_pdfs
MergeExtractDir(output_path) ==
  <<FromServer(Chars_merge_), FromClient(Basename(PathText(output_path))),
    FromServer(Chars_extracted_ \o Pid)>>

\* the directory the engine makes for itself and removes in its own finally
\* clause: the one merge_pdfs extracts the archive into
EngineOwnDir(act, output_path) ==
  IF act = "merge" THEN MergeExtractDir(output_path) ELSE NoPath

\* the finally clause of merge_pdfs: shutil.rmtree(temp_extract_dir)
EngineFinally(files, dir) == files \ {PathText(dir)}

\* the session leaves its try block for the finally clause
DLeave(l, exit) == [l EXCEPT !.pc = "cleanup", !.exit = exit]

\* a client connects; the connection waits in the queue of the listening socket
DConnect ==
  /\ listen.opened < MaxConns
  /\ listen' = [opened |-> listen.opened + 1, waiting |-> listen.waiting + 1]
  /\ UNCHANGED <<rvars, evars, loop, temp>>

\* lines 530-543: s.accept() takes the connection that has waited longest
DAccept ==
  /\ loop.pc = "accept"
  /\ listen.waiting > 0
  /\ listen' = [listen EXCEPT !.waiting = @ - 1]
  /\ loop' = AcceptLocals(loop) @@ [pc |-> "handshake", exit |-> "none",
                                    served |-> loop.served, last_exit |-> loop.last_exit,
                                    made |-> {}]
  /\ UNCHANGED <<rvars, evars, temp>>

\* lines 544-597: the action and the file name arrive and the paths are set;
\* or the client is gone, or what it sent does not decode
DSetupPaths ==
  /\ loop.pc = "handshake"
  /\ UNCHANGED <<rvars, evars, listen, temp>>
  /\ \/ \E exit \in {"network", "validation"} : loop' = DLeave(loop, exit)
     \/ \E act \in ActionInputs, base_filename \in WireNames :
          LET paths == WorkspacePaths(act, base_filename)
          IN  loop' = [loop EXCEPT !.pc = "receive", !.action = act,
                                   !.base_filename = base_filename,
                                   !.input_path = paths.input_path,
                                   !.output_path = paths.output_path,
                                   !.temp_dir_for_action = paths.temp_dir_for_action]

\* lines 599-652: the size, the payload written to input_path, the options
DReceiveInput ==
  /\ loop.pc = "receive"
  /\ UNCHANGED <<rvars, evars, listen>>
  /\ \/ \* no size field, or one that is no number: input_path is not opened
        /\ \E exit \in {"network", "validation"} : loop' = DLeave(loop, exit)
        /\ UNCHANGED temp
     \/ \* the file is opened; the client is lost during the payload or the options
        /\ temp' = Create(temp, loop.input_path)
        /\ loop' = DLeave([loop EXCEPT !.made = Create(@, loop.input_path)], "network")
     \/ \* payload and options are complete
        /\ temp' = Create(temp, loop.input_path)
        /\ loop' = [loop EXCEPT !.pc = "engine", !.made = Create(@, loop.input_path)]

\* lines 654-695: the engine; it may make the scratch directory and the output
\* file, and it returns or raises
DRunEngine ==
  /\ loop.pc = "engine"
  /\ UNCHANGED <<rvars, evars, listen>>
  /\ IF loop.action \notin Actions
       THEN /\ loop' = [loop EXCEPT !.pc = "reply", !.exit = "validation"]
            /\ UNCHANGED temp
       ELSE \E raised \in BOOLEAN, wrote \in BOOLEAN, scratch \in BOOLEAN :
              LET own == EngineOwnDir(loop.action, loop.output_path)
                  Made(files) ==
                    Create(Create(Create(files, own),
                                  IF wrote THEN loop.output_path ELSE NoPath),
                           IF scratch THEN loop.temp_dir_for_action ELSE NoPath)
              IN
              /\ temp' = EngineFinally(Made(temp), own)
              /\ loop' = [loop EXCEPT !.pc = "reply",
                                      !.made = Made(@),
                                      !.action_success = ~raised,
                                      !.exit = IF raised \/ ~wrote THEN "processing"
                                                                   ELSE "success"]

\* lines 697-739: the result or the error envelope is sent, or the client is lost
DReply ==
  /\ loop.pc = "reply"
  /\ UNCHANGED <<rvars, evars, listen, temp>>
  /\ \/ loop' = DLeave(loop, loop.exit)
     \/ loop.exit = "success" /\ loop' = DLeave(loop, "network")

\* lines 741-759: the finally clause, and the loop is back at s.accept()
DCleanup ==
  /\ loop.pc = "cleanup"
  /\ temp' = Cleanup(temp, loop)
  /\ loop' = [loop EXCEPT !.pc = "accept", !.served = @ + 1, !.last_exit = loop.exit]
  /\ UNCHANGED <<rvars, evars, listen>>

DInit ==
  /\ client \in {InitClient(r) : r \in {q \in Requests : q.action = "bogus" /\ q.nPaths = 1 /\ q.nValid = 0}}
  /\ server = InitServer
  /\ c2s = <<>>
  /\ s2c = <<>>
  /\ conn = "none"
  /\ log = InitLog
  /\ listen = InitListen
  /\ loop = InitLoop
  /\ temp = {}
  /\ call = NoCall

DNext ==
  \/ DConnect
  \/ DAccept
  \/ DSetupPaths
  \/ DReceiveInput
  \/ DRunEngine
  \/ DReply
  \/ DCleanup

\* the accept loop over several connections
Dispatcher == DInit /\ [][DNext]_vars

\* ------------------------------------------------------------ the system
Next ==
  \/ CConnect
  \/ CConnectRefused
  \/ CRecvAckAction
  \/ CRecvAckFilename
  \/ CRecvAckSize
  \/ CSendChunk
  \/ CSendTimeout
  \/ CSendOptions
  \/ CRecvAckOption
  \/ CRecvOutFilename
  \/ CRecvOutSize
  \/ CRecvErrorMsg
  \/ CRecvOutData
  \/ CSave
  \/ SAccept
  \/ SRecvAction
  \/ SRecvFilename
  \/ SRecvSize
  \/ SRecvData
  \/ SRecvOption
  \/ SProcess
  \/ SRecvAckOutFilename
  \/ SRecvAckOutSize
  \/ SSendChunk
  \/ SSendTimeout
  \/ SErrNameReply
  \/ SErrSizeReply

Spec == Init /\ [][Next]_vars

\* the steps of send_request_to_server, and those of the accept loop's body
ClientNext ==
  \/ CConnect
  \/ CConnectRefused
  \/ CRecvAckAction
  \/ CRecvAckFilename
  \/ CRecvAckSize
  \/ CSendChunk
  \/ CSendTimeout
  \/ CSendOptions
  \/ CRecvAckOption
  \/ CRecvOutFilename
  \/ CRecvOutSize
  \/ CRecvErrorMsg
  \/ CRecvOutData
  \/ CSave

ServerNext ==
  \/ SAccept
  \/ SRecvAction
  \/ SRecvFilename
  \/ SRecvSize
  \/ SRecvData
  \/ SRecvOption
  \/ SProcess
  \/ SRecvAckOutFilename
  \/ SRecvAckOutSize
  \/ SSendChunk
  \/ SSendTimeout
  \/ SErrNameReply
  \/ SErrSizeReply

\* Each of the two programs goes on while it has a step to take: a call that
\* has returned (a recv, a sendall, the engine, a dialog) is followed by the
\* next statement.
FairSpec == Spec /\ WF_vars(ClientNext) /\ WF_vars(ServerNext)

\* The server takes a connection from any program.  A peer that follows
\* client.py in everything but the form of its size field:
AnyPeerInit ==
  /\ \E r \in Requests, form \in SizeFieldForms :
        client = [InitClient(r) EXCEPT !.size_field = form]
  /\ server = InitServer
  /\ c2s = <<>>
  /\ s2c = <<>>
  /\ conn = "none"
  /\ log = InitLog
  /\ listen = InitListen
  /\ loop = InitLoop
  /\ temp = {}
  /\ call = NoCall

AnyPeer == AnyPeerInit /\ [][Next]_vars

TypeOK ==
  /\ client.pc \in {"start", "ack_action", "ack_filename", "ack_size", "send_data",
                    "ack_option", "out_filename", "out_size", "error_msg", "out_data",
                    "save", "done"}
  /\ client.outcome \in {"none", "refused", "timeout", "connlost", "input_error",
                         "server_error", "error", "empty", "saved", "cancelled"}
  /\ server.pc \in {"accept", "action", "filename", "size", "data", "option", "process",
                    "ack_out_filename", "ack_out_size", "send_out", "err_name", "err_size"}
  /\ conn \in {"none", "pending", "accepted"}

\* ================================================================ claims
\* the table of section 4.3 of the specification: the fields of an action, in
\* order, and the ACK of each
TableFields(a) ==
  CASE a \in {"encrypt", "decrypt"} -> <<"password">>
    [] a = "split" -> <<"ranges">>
    [] a = "rotate" -> <<"pages", "angle">>
    [] a = "add_numbers" -> <<"position">>
    [] OTHER -> <<>>

TableAcks(a) ==
  CASE a \in {"encrypt", "decrypt"} -> <<"ACK_PASS">>
    [] a = "split" -> <<"ACK_RANGES">>
    [] a = "rotate" -> <<"ACK_PAGES", "ACK_ANGLE">>
    [] a = "add_numbers" -> <<"ACK_POSITION">>
    [] OTHER -> <<>>

RequestSteps(a) == <<"action", "filename", "size", "payload">> \o TableFields(a)
RequestAcks(a) == <<"ACK_ACTION", "ACK_FILENAME", "ACK_SIZE">> \o TableAcks(a)

\* what the client has sent of the request leg, in order
ReqSent == SelectSeq(log.csent, LAMBDA x : x \notin {"ACK_OUT_FILENAME", "ACK_OUT_SIZE"})

\* the ACKs the client must hold before it sends its k-th request step: one for
\* every earlier step but the payload, which has none
AcksNeeded(k) == IF k <= 4 THEN k - 1 ELSE k - 2

\* the ACKs the server has sent when it stands at pc
AcksSentAt(pc, optIdx, a) ==
  CASE pc = "action" -> 0
    [] pc = "filename" -> 1
    [] pc = "size" -> 2
    [] pc = "data" -> 3
    [] pc = "option" -> 3 + optIdx
    [] OTHER -> 3 + Len(TableAcks(a))

InSession == conn = "accepted" /\ ~server.closed

RangeOf(q) == {q[i] : i \in DOMAIN q}

\* C1: the request leg runs in the order action, ACK_ACTION, file name,
\* ACK_FILENAME, size, ACK_SIZE, payload, option fields each with its ACK: what
\* the client has sent is a prefix of that order, it holds the ACK of every
\* earlier acknowledged step when it sends a step, the ACKs it accepted are the
\* ones the server sent, and the server has sent exactly the ACKs of the steps
\* it has been through.
C1_RequestOrder ==
  /\ IsPrefix(ReqSent, RequestSteps(client.action))
  /\ Len(log.cacks) >= AcksNeeded(Len(ReqSent))
  /\ IsPrefix(log.cacks, log.sacks)
  /\ IsPrefix(log.sacks, RequestAcks(client.action))
  /\ InSession => Len(log.sacks) = AcksSentAt(server.pc, server.optIdx, server.action)
  /\ "ACK_OUT_FILENAME" \in RangeOf(log.csent) => ReqSent = RequestSteps(client.action)

C1_Witness ==
  /\ client.action = "rotate"
  /\ client.pc = "out_filename"
  /\ ReqSent = <<"action", "filename", "size", "payload", "pages", "angle">>
  /\ log.cacks = <<"ACK_ACTION", "ACK_FILENAME", "ACK_SIZE", "ACK_PAGES", "ACK_ANGLE">>
  /\ Len(client.file) = MaxFile

UnreadTokens(chan) == Cardinality({i \in DOMAIN chan : chan[i].k # "byte"})

\* C2: in every state at most one token is unread in each direction, so that
\* no receive returns two messages glued together; in particular the last ACK
\* of the request leg and the result name are never both unread.
C2_OneUnreadToken == UnreadTokens(s2c) <= 1 /\ UnreadTokens(c2s) <= 1

\* the replies the server must have had before it sends a frame of the result leg
RepliesNeeded(frame) ==
  CASE frame \in {"size", "errsize"} -> 1
    [] frame \in {"data", "errmsg"} -> 2
    [] OTHER -> 0

\* C3: a sender goes on to its next step only after exactly the matching ACK:
\* the client on the request leg, and the server after the result name and
\* after the result size, on the success path and on the error path.
C3_MatchingAckBeforeNextStep ==
  /\ Len(log.cacks) >= AcksNeeded(Len(ReqSent))
  /\ IsPrefix(log.cacks, RequestAcks(client.action))
  /\ \A i \in DOMAIN log.ssent :
        \A j \in 1..RepliesNeeded(log.ssent[i]) :
           j <= Len(log.sreplies) /\ log.sreplies[j]

ServerPastData ==
  InSession /\ server.pc \in {"option", "process", "ack_out_filename", "ack_out_size", "send_out"}

ClientHasResult == client.pc = "save" \/ client.outcome \in {"saved", "cancelled"}

\* C4: the bytes stored equal the bytes streamed, in both directions: once the
\* server has left its receive loop its input file equals the client's file,
\* and once the client has left its receive loop its result equals the output
\* file the engine wrote, whose length is the declared size; a saved file
\* holds those bytes.
C4_ByteIdentical ==
  /\ ServerPastData => server.input = FileOf(client.file)
  /\ ClientHasResult =>
        /\ log.produced.exists
        /\ client.output_data = log.produced.data
        /\ client.output_size = Len(log.produced.data)
  /\ client.saved.exists => client.saved.data = log.produced.data

C4_Witness ==
  /\ client.outcome = "saved"
  /\ Len(client.file) = MaxFile
  /\ Len(client.saved.data) = MaxOut
  /\ client.action = "rotate"

\* C5: a bulk receive asks for at most min(chunk size, bytes still missing);
\* the bytes received are never fewer than 0 nor more than the declared size;
\* and the receive loop is left normally only with exactly the declared size.
C5_BoundedReceive ==
  /\ log.sreq.asked <= Min(ChunkSize, log.sreq.missing)
  /\ log.creq.asked <= Min(ChunkSize, log.creq.missing)
  /\ 0 <= server.received_bytes /\ server.received_bytes <= server.size
  /\ Len(server.input.data) <= server.size
  /\ Len(client.output_data) <= client.output_size
  /\ ServerPastData => server.received_bytes = server.size
  /\ ClientHasResult => Len(client.output_data) = client.output_size

C5_Witness ==
  /\ ServerPastData
  /\ server.size = MaxFile
  /\ log.sreq.asked = log.sreq.missing
  /\ log.sreq.asked < ChunkSize
  /\ c2s # <<>>

\* C6: a read of zero bytes before the declared size is reached is a lost
\* peer: the server's session is then over, the engine was not invoked and no
\* frame of a result was sent; the client's request is then over with the
\* outcome "connection lost", and nothing was saved.
C6_ZeroReadIsDisconnect ==
  /\ log.szero =>
        /\ server.closed /\ server.handler = "net"
        /\ server.engine_calls = 0
        /\ log.ssent = <<>>
        /\ log.sacks = <<"ACK_ACTION", "ACK_FILENAME", "ACK_SIZE">>
  /\ log.czero =>
        /\ client.pc = "done" /\ client.outcome = "connlost"
        /\ ~client.ret
        /\ ~client.saved.exists

C6_Witness ==
  /\ log.szero /\ server.closed
  /\ server.received_bytes > 0 /\ server.received_bytes < server.size

\* the client waits for the ACK of a field while the server still waits for
\* that field, and nothing is on its way
MutualOptionWait ==
  /\ client.pc = "ack_option" /\ server.pc = "option" /\ InSession
  /\ ~client.closed
  /\ server.optIdx + 1 = client.optIdx
  /\ c2s = <<>> /\ s2c = <<>>

\* C7: for every action the client sends and the server reads exactly the
\* fields of the table, in its order: the option fields sent are a prefix of
\* the table's row and are the whole row once the client waits for the result,
\* the option ACKs sent are a prefix of the row's ACKs and are the whole row
\* once the server calls the engine; and neither side waits for a field or an
\* ACK that the other will not send.
C7_OptionTable ==
  /\ IsPrefix(ReqSent, RequestSteps(client.action))
  /\ IsPrefix(log.sacks, RequestAcks(client.action))
  /\ client.pc = "out_filename" => ReqSent = RequestSteps(client.action)
  /\ (InSession /\ server.pc = "process") => log.sacks = RequestAcks(client.action)
  /\ ~MutualOptionWait

ClientPastOptions ==
  client.pc \in {"ack_option", "out_filename", "out_size", "error_msg", "out_data", "save"}

\* C8: when a field the action requires is missing or empty, the client fails
\* locally: it never sends that field and never gets past the check of the
\* options.
C8_MissingOrEmptyNeverSent ==
  \A k \in KeysOf(client.action) :
     ~Truthy(client.options[k]) =>
        /\ k \notin RangeOf(log.csent)
        /\ ~ClientPastOptions

\* C9: the server never invokes the engine in a session in which an option
\* field it received was empty; the options it hands to the engine are all
\* non-empty.
C9_EmptyFieldNoEngine ==
  /\ log.sempty => server.engine_calls = 0
  /\ server.engine_calls > 0 =>
        \A k \in KeysOf(server.action) : Truthy(server.options[k])

C9_Witness ==
  /\ log.sempty
  /\ server.closed
  /\ server.received_bytes = MaxFile
  /\ log.sacks = RequestAcks(client.action)

\* C10: the engine is invoked at most once in a session, and only after the
\* whole declared payload and every option field of the action have been
\* received.
C10_EngineOnceAfterAll ==
  /\ server.engine_calls <= 1
  /\ server.engine_calls = 1 =>
        /\ server.action \in Actions
        /\ server.size = Len(client.file)
        /\ server.received_bytes = server.size
        /\ server.optIdx = Len(TableFields(server.action))
        /\ \A k \in KeysOf(server.action) : Truthy(server.options[k])
        /\ log.sacks = RequestAcks(server.action)
  /\ (server.closed /\ server.handler = "net" /\ Len(log.sacks) < Len(RequestAcks(server.action)))
        => server.engine_calls = 0

C10_Witness ==
  /\ server.engine_calls = 1
  /\ server.action = "rotate"
  /\ server.size = MaxFile
  /\ server.closed

\* text occurs in name; with fold, letters count without regard to their case
Contains(name, text, fold) ==
  \E i \in 1..(Len(name) - Len(text) + 1) :
     \A j \in 1..Len(text) :
        (IF fold THEN Lower(name[i + j - 1]) ELSE name[i + j - 1]) = text[j]

\* the client has read the size of the result and acknowledged it
ClientKnowsSize == "ACK_OUT_SIZE" \in RangeOf(log.csent)

\* how the client reads an envelope, when a name holds the sentinel if
\* IsSentinel says so
EnvelopeReadAs(IsSentinel(_)) ==
  LET name == client.output_filename_suggestion
      size == client.output_size
  IN  /\ client.pc = "error_msg" \/ client.outcome = "server_error"
           => ClientKnowsSize /\ size = 0 /\ IsSentinel(name) /\ client.output_data = <<>>
      /\ client.outcome = "empty"
           => /\ ClientKnowsSize /\ size = 0 /\ ~IsSentinel(name)
              /\ client.output_data = <<>> /\ client.error_msg = <<>> /\ client.ret
      /\ client.pc \in {"out_data", "save"} \/ client.outcome \in {"saved", "cancelled"}
           => /\ ClientKnowsSize /\ size > 0
              /\ Len(client.output_data) <= size /\ client.error_msg = <<>>
      /\ client.pc = "save" \/ client.outcome \in {"saved", "cancelled"}
           => Len(client.output_data) = size
      /\ client.pc = "out_data" => Len(client.output_data) < size
      /\ (ClientKnowsSize /\ size = 0 /\ IsSentinel(name) /\ client.pc = "done")
           => client.outcome \in {"server_error", "timeout", "connlost", "error"}
      /\ (ClientKnowsSize /\ size = 0 /\ ~IsSentinel(name))
           => client.pc = "done" /\ client.outcome \in {"empty", "connlost", "error"}

SentinelAnyCase(name) == Contains(name, Chars_error_, TRUE)
SentinelAsWritten(name) == Contains(name, Chars_error_, FALSE)

\* C11, as amended: the client reads a result envelope so: size 0 and a name
\* that holds "error_" in any case of its letters is a failure, and one block
\* of error message is read; size 0 and any other name is an empty success,
\* and nothing more is read; a size above 0 is followed by exactly that many
\* bytes of result.
C11_ResultEnvelope == EnvelopeReadAs(SentinelAnyCase)

C11_Witness ==
  /\ client.outcome = "server_error"
  /\ client.output_filename_suggestion = Chars_error_processing_bin
  /\ client.output_size = 0
  /\ client.error_msg = <<"ERROR">>

\* C11, as stated: the same, with "error_" looked for as it is written, in
\* lower case only.
C11_AsStated == EnvelopeReadAs(SentinelAsWritten)

\* C12: a failure is signalled by size 0 with a sentinel name and in no other
\* way: the name the server sends for an action that succeeded does not hold
\* "error_", whatever the file name and the action of the client, and the
\* client takes no result of an action that succeeded for a failure.
C12_SentinelOnlyOnFailure ==
  /\ "name" \in RangeOf(log.ssent)
       => ~SentinelAsWritten(server.output_filename_suggestion)
  /\ (client.outcome = "server_error" \/ client.pc = "error_msg")
       => ~log.produced.exists

\* the engine was called and raised
EngineFailed == server.engine_calls > 0 /\ ~server.action_success

\* the engine was called and returned without having written the output file
EngineLeftNoFile ==
  server.engine_calls > 0 /\ server.action_success /\ ~log.produced.exists

ErrorEnvelopeFrames == <<"errname", "errsize", "errmsg">>

\* what the server has sent of an error envelope: the frames in order, each
\* after a reply to the one before, a name that holds the sentinel, the size 0;
\* all three once it has had both replies
ErrorEnvelopeSent ==
  /\ server.handler \in {"generic", "fnf"}
  /\ log.ssent # <<>>
  /\ IsPrefix(log.ssent, ErrorEnvelopeFrames)
  /\ Len(log.sreplies) = Len(log.ssent) - 1
  /\ \A i \in DOMAIN s2c :
        /\ s2c[i].k # "byte"
        /\ s2c[i].k = "name" => SentinelAsWritten(s2c[i].s)
        /\ s2c[i].k = "size" => s2c[i].n = 0
  /\ (server.closed /\ Len(log.sreplies) = 2) => log.ssent = ErrorEnvelopeFrames

\* C13: when the engine has failed the server sends the error envelope: the
\* sentinel name, then after a reply the size 0, then after a reply one error
\* message; it does not end the session with no frame of it sent while the
\* client waits for the name of the result.
C13_EngineFailureEnvelope ==
  EngineFailed =>
     /\ ErrorEnvelopeSent
     /\ (server.closed /\ client.pc = "out_filename") => "errname" \in RangeOf(log.ssent)
     /\ client.outcome \notin {"saved", "empty", "cancelled"}

C13_Witness ==
  /\ EngineFailed
  /\ server.closed
  /\ server.handler = "generic"
  /\ log.ssent = ErrorEnvelopeFrames
  /\ log.sreplies = <<TRUE, TRUE>>
  /\ client.outcome = "server_error"
  /\ client.output_filename_suggestion = Chars_error_processing_bin

\* C14: when the engine has returned and there is no output file, the server
\* sends the same error envelope, and no frame of a success envelope.
C14_MissingOutputEnvelope ==
  /\ EngineLeftNoFile => ErrorEnvelopeSent /\ server.handler = "fnf"
  /\ "name" \in RangeOf(log.ssent) => log.produced.exists

C14_Witness ==
  /\ EngineLeftNoFile
  /\ server.closed
  /\ log.ssent = ErrorEnvelopeFrames
  /\ client.outcome = "server_error"
  /\ client.output_filename_suggestion = Chars_error_file_not_found_bin

\* C20: the client writes the result file only with exactly the declared
\* number of bytes received, and a request that ends before that (lost
\* connection, timeout, bad frame, failure reported by the server) leaves no file.
C20_NoPartialFile ==
  /\ client.saved.exists
       => /\ client.outcome = "saved"
          /\ client.output_size > 0
          /\ Len(client.saved.data) = client.output_size
          /\ client.saved.data = client.output_data
  /\ Len(client.output_data) < client.output_size => ~client.saved.exists
  /\ client.outcome \in {"timeout", "connlost", "input_error", "server_error", "error"}
       => ~client.saved.exists /\ ~client.ret

C20_Witness ==
  /\ client.outcome = "connlost"
  /\ client.output_size = MaxOut
  /\ client.output_data # <<>>
  /\ Len(client.output_data) < client.output_size
  /\ ~client.saved.exists

C17_ConcurrentAccept ==
  (listen.waiting > 0 /\ loop.pc # "accept") => ENABLED DAccept

\* text made of alphanumerics, "_" and "-" only, no longer than the cap
SanitizedText(text) ==
  /\ \A i \in DOMAIN text : IsAlnum(text[i]) \/ text[i] \in {"_", "-"}
  /\ Len(text) <= NameCap

\* an extension: nothing, or a dot and sanitized text
ExtensionText(text) == text = <<>> \/ (Head(text) = "." /\ SanitizedText(Tail(text)))

\* C19: in every path the server builds, a piece taken from the file name of
\* the client is sanitized text within the cap (or a file extension of such
\* text): it holds no path separator and no ".." segment, for every action.
C19_SanitizedPaths ==
  \A path \in {loop.input_path, loop.output_path, loop.temp_dir_for_action} :
     \A i \in DOMAIN path :
        path[i].src = "client" => SanitizedText(path[i].text) \/ ExtensionText(path[i].text)

\* the client's own checks refuse the request: the file arguments or the options
LocallyInvalid ==
  \/ ~ClientInputValid(client.action, client.nPaths, client.nValid)
  \/ ~ClientOptionsGiven(client.action, client.options)

\* C21: when the client finds the request invalid by its own checks (a merge
\* of fewer than two valid files, an input that is no file, a required option
\* missing), it sends nothing of it: no connection is made and no frame is
\* sent to the server.
C21_RefusesToSend ==
  (client.outcome = "input_error" /\ LocallyInvalid) => log.csent = <<>> /\ conn = "none"

\* the size field the server read was not the sixteen bytes of a padded numeral
MalformedSizeRead == log.ssize \in {"short", "text"}

\* C22: a size field that is no numeral, or is not sixteen bytes long, ends
\* the session: the server sends no ACK for it and no frame after it, and the
\* connection is closed.
C22_MalformedSizeFatal ==
  MalformedSizeRead =>
     /\ "ACK_SIZE" \notin RangeOf(log.sacks)
     /\ log.ssent = <<>>
     /\ server.closed

\* C24: a timeout at any step, or a reset of the connection, ends the session
\* at once: the server has sent nothing from the moment it was raised, its
\* handler is over and its files are removed; the client's call is over, has
\* returned False and has saved nothing.
C24_AbortOnTimeoutOrReset ==
  /\ server.raised \in {"timeout", "reset"} =>
        /\ server.closed /\ server.pc = "accept"
        /\ FramesSent(server, log) = server.sent_at_raise
        /\ ~server.input.exists /\ ~server.output.exists
  /\ client.outcome \in {"timeout", "connlost", "error"} =>
        /\ client.pc = "done" /\ client.closed
        /\ ~client.ret /\ ~client.saved.exists

C24_Witness ==
  /\ server.raised = "timeout"
  /\ server.received_bytes > 0
  /\ server.received_bytes < server.size
  /\ server.sent_at_raise = 3
  /\ client.outcome = "connlost"

\* what the caller has from a call that is over: the value returned, and the
\* status label it makes of it
CallerSees ==
  [success |-> client.ret, label |-> StatusLabel(client.ret, client.action = "merge")]

\* the call ended by one of: could not connect, connection lost, error
\* reported by the server
FailedForPeer == client.pc = "done" /\ client.outcome \in {"refused", "connlost", "server_error"}

\* C26: the caller can tell "could not connect", "connection lost", "the
\* server reported an error" and "cancelled by the user" apart: a call that
\* ended for one of the first three is not reported as a cancelled save, and
\* the value returned for it is not the value returned for a cancellation.
C26_DistinctOutcomes ==
  FailedForPeer =>
     /\ CallerSees.label # StatusLabel(FALSE, client.action = "merge")
     /\ CallerSees.success # FALSE

\* the server holds an action tag that is none of the eleven
UnknownAction == server.action \notin Actions /\ server.action # "unknown"

\* C27: an action tag that is none of the eleven is rejected by the server: no
\* engine function is called for it, no frame of a success result is sent, and
\* once the payload is in, the error envelope of the general except clause is
\* sent; the client takes no result from such a request.
C27_UnknownActionRejected ==
  UnknownAction =>
     /\ server.engine_calls = 0
     /\ ~server.action_success
     /\ "name" \notin RangeOf(log.ssent)
     /\ server.handler \in {"none", "net", "generic"}
     /\ server.handler = "generic" => ErrorEnvelopeSent
     /\ (server.closed /\ server.handler # "net") => "errname" \in RangeOf(log.ssent)
     /\ client.outcome \notin {"saved", "empty", "cancelled"}

C27_Witness ==
  /\ UnknownAction
  /\ server.closed
  /\ server.received_bytes = MaxFile
  /\ server.handler = "generic"
  /\ log.ssent = ErrorEnvelopeFrames
  /\ client.outcome = "server_error"
  /\ client.error_msg = <<"ERROR">>

\* C25: no session hangs.  While its call or its handler is not over, each
\* side has a step to take, whatever the other does: a receive with nothing to
\* read ends by its timeout.  So every call of the client returns and every
\* session the server has accepted ends with its cleanup, also when an ACK is
\* missing or is not the one awaited, or when the peer sends nothing more.
C25_NoSessionHangs ==
  /\ [](client.pc # "done" => ENABLED ClientNext)
  /\ [](InSession => ENABLED ServerNext)
  /\ <>(client.pc = "done")
  /\ [](conn = "accepted" => <>(server.closed /\ server.pc = "accept"))

\* the client has sent an empty field, which puts nothing on the wire; no ACK
\* came for it, the client's receive has timed out, and the server, which
\* waited for the field, has found the client gone
C25_Witness ==
  /\ client.pc = "done"
  /\ client.outcome = "timeout"
  /\ client.optIdx = 1
  /\ Len(log.cacks) = 3
  /\ log.sempty
  /\ server.closed

\* ============================================================ functions
\* The functions of the program that compute a value from their arguments,
\* each called on its own: `call` holds the function, its arguments and what
\* it gave.

\* ------------------------------------------------------- the size field
\* os.path.getsize gives a number of any size; the claim is about the unsigned
\* 64-bit ones.  A size is written here as three limbs in base 10^9, the most
\* significant first, so that 2^64 - 1 can be written.
Limb == 1000000000
UInt64Max == <<18, 446744073, 709551615>>

\* a <= b for two sizes
SizeLeq(a, b) ==
  \/ a[1] < b[1]
  \/ a[1] = b[1] /\ a[2] < b[2]
  \/ a[1] = b[1] /\ a[2] = b[2] /\ a[3] <= b[3]

IsUInt64(n) ==
  /\ n[1] \in 0..18 /\ n[2] \in 0..(Limb - 1) /\ n[3] \in 0..(Limb - 1)
  /\ SizeLeq(n, UInt64Max)

\* the sizes tried: the small ones, the chunk boundaries, the last size of
\* 16 digits, the first of 17, and the ends of the 64-bit range
SizeSamples ==
  { <<0, 0, 0>>, <<0, 0, 1>>, <<0, 0, 9>>, <<0, 0, 10>>, <<0, 0, 65536>>,
    <<0, 0, 65537>>, <<0, 0, 999999999>>, <<0, 1, 0>>, <<0, 4, 294967296>>,
    <<0, 999999, 999999999>>, <<0, 1000000, 0>>, <<0, 9999999, 999999999>>,
    <<0, 10000000, 0>>, <<0, 10000000, 1>>, <<0, 99999999, 999999999>>,
    <<0, 999999999, 999999999>>, <<1, 0, 0>>, <<9, 223372036, 854775807>>,
    <<9, 223372036, 854775808>>, <<18, 446744073, 709551614>>, UInt64Max }

\* str(x) of a number x >= 0 below 2^31
RECURSIVE StrOfNat(_)
StrOfNat(x) ==
  IF x < 10 THEN <<Digits[x + 1]>>
  ELSE StrOfNat(x \div 10) \o <<Digits[(x % 10) + 1]>>

\* the digits of a limb that is not the first one: nine of them
ZFill(s, width) ==
  IF Len(s) >= width THEN s ELSE [i \in 1..(width - Len(s)) |-> "0"] \o s

\* str(file_size): the decimal numeral, no sign, no leading zero
StrOfSize(n) ==
  IF n[1] > 0
    THEN StrOfNat(n[1]) \o ZFill(StrOfNat(n[2]), 9) \o ZFill(StrOfNat(n[3]), 9)
    ELSE IF n[2] > 0
           THEN StrOfNat(n[2]) \o ZFill(StrOfNat(n[3]), 9)
           ELSE StrOfNat(n[3])

\* a padding of zeros in the place of the spaces
LJust_Zeros(s, width) ==
  IF Len(s) >= width THEN s ELSE s \o [i \in 1..(width - Len(s)) |-> "0"]

\* bytes.ljust(width): spaces are added on the right up to the width, and a
\* value that is already as long or longer is returned as it is
LJust(s, width) ==
  IF Len(s) >= width THEN s ELSE s \o [i \in 1..(width - Len(s)) |-> " "]

\* the width of the size field on the wire: recv(16)
SizeFieldWidth == 16

\* str(file_size).encode().ljust(16), the same expression on both sides
EncodeSize(n) == LJust(StrOfSize(n), SizeFieldWidth)

CallEncodeSize ==
  /\ call.fn = "none"
  /\ \E n \in SizeSamples :
        call' = [fn |-> "encode_size", n |-> n, result |-> EncodeSize(n)]
  /\ UNCHANGED <<rvars, dvars>>

\* the function returns
CallReturn ==
  /\ call.fn # "none"
  /\ call' = NoCall
  /\ UNCHANGED <<rvars, dvars>>

\* C23: for every size n in the unsigned 64-bit range, the size field that
\* either side sends for n is exactly 16 bytes long.
C23_SizeFieldIs16Bytes ==
  (call.fn = "encode_size" /\ IsUInt64(call.n)) =>
     Len(call.result) = SizeFieldWidth

\* the sizes for which the field does have 16 bytes: those below 10^16
C23_SixteenDigitsFit ==
  (call.fn = "encode_size" /\ SizeLeq(call.n, <<0, 9999999, 999999999>>)) =>
     Len(call.result) = SizeFieldWidth

\* ---------------------------------------------------- strings of Python
\* the first place of character c in s, 0 when it is not there
IndexOf(s, c) ==
  IF \E i \in DOMAIN s : s[i] = c
    THEN CHOOSE i \in DOMAIN s : s[i] = c /\ \A j \in 1..(i - 1) : s[j] # c
    ELSE 0

\* s.split(sep): the pieces between the separators, empty ones included
RECURSIVE SplitOn(_, _)
SplitOn(s, sep) ==
  LET i == IndexOf(s, sep) IN
  IF i = 0 THEN <<s>>
  ELSE <<SubSeq(s, 1, i - 1)>> \o SplitOn(SubSeq(s, i + 1, Len(s)), sep)

\* s.strip(): the white space at both ends is dropped
RECURSIVE PyStrip(_)
PyStrip(s) ==
  IF s = <<>> THEN s
  ELSE IF s[1] = " " THEN PyStrip(Tail(s))
  ELSE IF s[Len(s)] = " " THEN PyStrip(SubSeq(s, 1, Len(s) - 1))
  ELSE s

\* the value of a numeral
RECURSIVE NatOfDigits(_)
NatOfDigits(s) ==
  IF s = <<>> THEN 0
  ELSE 10 * NatOfDigits(SubSeq(s, 1, Len(s) - 1))
         + ((CHOOSE d \in DOMAIN Digits : Digits[d] = s[Len(s)]) - 1)

\* int(s): white space around the numeral is allowed, and one sign before
\* it; anything else raises ValueError.  <<it is a number, the number>>
PyInt(s) ==
  LET t == PyStrip(s)
      signed == t # <<>> /\ t[1] \in {"+", "-"}
      body == IF signed THEN Tail(t) ELSE t
      isnum == body # <<>> /\ \A i \in DOMAIN body : \E d \in DOMAIN Digits : Digits[d] = body[i]
  IN IF ~isnum THEN <<FALSE, 0>>
     ELSE <<TRUE, IF signed /\ t[1] = "-" THEN 0 - NatOfDigits(body) ELSE NatOfDigits(body)>>

\* str.lower() of the page specification
LowerText(s) == [i \in DOMAIN s |-> Lower(s[i])]

\* ------------------------------------------------ the size field read
\* the number a numeral of up to 27 digits stands for, as three limbs
SizeOfDigits(s) ==
  LET z == ZFill(s, 27)
  IN <<NatOfDigits(SubSeq(z, 1, 9)), NatOfDigits(SubSeq(z, 10, 18)),
       NatOfDigits(SubSeq(z, 19, 27))>>

\* int(size_bytes.decode().strip()) of what recv(16) gave: the first 16 bytes
\* that were sent.  <<it is a number, the number>>
DecodeSize(sent) ==
  LET size_bytes == Take(sent, Min(SizeFieldWidth, Len(sent)))
      t == PyStrip(size_bytes)
      isnum == t # <<>> /\ \A i \in DOMAIN t : \E d \in DOMAIN Digits : Digits[d] = t[i]
  IN IF isnum THEN <<TRUE, SizeOfDigits(t)>> ELSE <<FALSE, <<0, 0, 0>>>>

\* one side sends the field for n and the other reads it
CallDecodeSize ==
  /\ call.fn = "none"
  /\ \E n \in SizeSamples :
        call' = [fn |-> "decode_size", n |-> n, sent |-> EncodeSize(n),
                 result |-> DecodeSize(EncodeSize(n))]
  /\ UNCHANGED <<rvars, dvars>>

\* --------------------------------------------------- page specifications
\* 1 <= start <= end <= num_pages
InBounds_NoLast(start, end, num_pages) == 1 <= start /\ start <= end

InBounds(start, end, num_pages) == 1 <= start /\ start <= end /\ end <= num_pages

\* the pages start..end in their order
PageRange(start, end) == [k \in 1..(end - start + 1) |-> start + k - 1]

\* The pages one part of a specification stands for, the part stripped and
\* not empty: <<the part is good, its pages>>.  A part that is not good is
\* the ValueError of the code.
PartPages(part, num_pages) ==
  IF IndexOf(part, "-") # 0
    THEN LET i == IndexOf(part, "-")
             start_str == SubSeq(part, 1, i - 1)
             end_str == SubSeq(part, i + 1, Len(part))
             start == IF start_str # <<>> THEN PyInt(start_str) ELSE <<TRUE, 1>>
             end == IF end_str # <<>> THEN PyInt(end_str) ELSE <<TRUE, num_pages>>
         IN IF start[1] /\ end[1] /\ InBounds(start[2], end[2], num_pages)
              THEN <<TRUE, PageRange(start[2], end[2])>>
              ELSE <<FALSE, <<>>>>
    ELSE LET page_num == PyInt(part)
         IN IF page_num[1] /\ InBounds(page_num[2], page_num[2], num_pages)
              THEN <<TRUE, <<page_num[2]>>>>
              ELSE <<FALSE, <<>>>>

\* ------------------------------------------------------------ split_pdf
\* The parts of a page specification as its writer means them, and the text
\* they are written as.  A part is one page, a range, a range open at one
\* end or at both, or some other text.
Seg(kind, a, b, text) == [kind |-> kind, a |-> a, b |-> b, text |-> text]

SegmentSamples ==
  { Seg("page", 5, 0, <<>>), Seg("page", 1, 0, <<>>), Seg("page", 0, 0, <<>>),
    Seg("padded", 2, 0, <<>>),
    Seg("range", 1, 3, <<>>), Seg("range", 3, 1, <<>>), Seg("range", 7, 12, <<>>),
    Seg("from", 7, 0, <<>>), Seg("upto", 0, 2, <<>>), Seg("open", 0, 0, <<>>),
    Seg("text", 0, 0, <<"x">>), Seg("text", 0, 0, <<>>),
    Seg("text", 0, 0, <<"1", "-", "2", "-", "3">>) }

\* the text of one part
SegText(seg) ==
  CASE seg.kind = "page" -> StrOfNat(seg.a)
    [] seg.kind = "padded" -> <<" ">> \o StrOfNat(seg.a) \o <<" ">>
    [] seg.kind = "range" -> StrOfNat(seg.a) \o <<"-">> \o StrOfNat(seg.b)
    [] seg.kind = "from" -> StrOfNat(seg.a) \o <<"-">>
    [] seg.kind = "upto" -> <<"-">> \o StrOfNat(seg.b)
    [] seg.kind = "open" -> <<"-">>
    [] OTHER -> seg.text

\* the parts joined by commas
RECURSIVE RangesText(_)
RangesText(segs) ==
  IF segs = <<>> THEN <<>>
  ELSE IF Len(segs) = 1 THEN SegText(segs[1])
  ELSE SegText(segs[1]) \o <<",">> \o RangesText(Tail(segs))

\* the first and the last page a part means on a document of num_pages pages
SegFirst(seg, num_pages) ==
  IF seg.kind \in {"upto", "open"} THEN 1 ELSE seg.a

SegLast(seg, num_pages) ==
  CASE seg.kind \in {"page", "padded"} -> seg.a
    [] seg.kind \in {"from", "open"} -> num_pages
    [] OTHER -> seg.b

\* a part is valid when it is a page or a range of pages of the document
SegValid(seg, num_pages) ==
  /\ seg.kind # "text"
  /\ 1 <= SegFirst(seg, num_pages)
  /\ SegFirst(seg, num_pages) <= SegLast(seg, num_pages)
  /\ SegLast(seg, num_pages) <= num_pages

SegPages(seg, num_pages) == PageRange(SegFirst(seg, num_pages), SegLast(seg, num_pages))

\* the groups of the valid parts, in the order of the parts
RECURSIVE ValidGroups(_, _)
ValidGroups(segs, num_pages) ==
  IF segs = <<>> THEN <<>>
  ELSE (IF SegValid(segs[1], num_pages) THEN <<SegPages(segs[1], num_pages)>> ELSE <<>>)
         \o ValidGroups(Tail(segs), num_pages)

\* the loop over the parts: a part that is empty once stripped is passed
\* over, one that raises ValueError is skipped with a warning, and every
\* other part gives one more output file, numbered by file_index
RECURSIVE SplitParts(_, _, _)
SplitParts(parts, num_pages, output_files) ==
  IF parts = <<>> THEN output_files
  ELSE LET part == PyStrip(parts[1])
           pp == PartPages(part, num_pages)
       IN IF part = <<>> \/ ~pp[1]
            THEN SplitParts(Tail(parts), num_pages, output_files)
            ELSE SplitParts(Tail(parts), num_pages,
                   Append(output_files, [file_index |-> Len(output_files) + 1, pages |-> pp[2]]))

\* split_pdf(input_path, output_dir, ranges_str) on a document of num_pages
\* pages: the output files it returns, or the error it raises
SplitPdf(num_pages, ranges_str) ==
  IF num_pages = 0 THEN [raised |-> TRUE, output_files |-> <<>>]
  ELSE LET output_files == SplitParts(SplitOn(ranges_str, ","), num_pages, <<>>)
       IN [raised |-> output_files = <<>>, output_files |-> output_files]

MaxSegs == 3        \* most parts in a page specification
PageCounts == {0, 3, 10}

BoundedSeq(S, n) == UNION {[1..k -> S] : k \in 0..n}

CallSplitPdf ==
  /\ call.fn = "none"
  /\ \E num_pages \in PageCounts, segs \in BoundedSeq(SegmentSamples, MaxSegs) :
        call' = [fn |-> "split_pdf", num_pages |-> num_pages, segs |-> segs,
                 ranges_str |-> RangesText(segs),
                 result |-> SplitPdf(num_pages, RangesText(segs))]
  /\ UNCHANGED <<rvars, dvars>>

\* the groups of pages of the output files, in their order
GroupsOf(output_files) == [i \in DOMAIN output_files |-> output_files[i].pages]

C29_SkippedSegment ==
  /\ call.fn = "split_pdf"
  /\ call.num_pages = 10
  /\ call.segs = <<Seg("upto", 0, 2, <<>>), Seg("range", 7, 12, <<>>), Seg("page", 5, 0, <<>>)>>
  /\ GroupsOf(call.result.output_files) = << <<1, 2>>, <<5>> >>

\* ----------------------------------------------------------- rotate_pdf
\* what a call of rotate_pdf has done: whether it raised, how many times
\* each page was rotated and by what angle, whether the output was written,
\* and how many times it called the PDF library (the reader opened, a page
\* rotated, the writer written)
RotateResult(raised, times, angle, wrote, library_calls) ==
  [raised |-> raised, times |-> times, angle |-> angle, wrote |-> wrote,
   library_calls |-> library_calls]

\* the loop over the parts with a bad part skipped, as split_pdf does
RECURSIVE SelectParts_Skipping(_, _, _)
SelectParts_Skipping(parts, num_pages, added) ==
  IF parts = <<>> THEN <<TRUE, added>>
  ELSE LET part == PyStrip(parts[1])
           pp == PartPages(part, num_pages)
       IN IF part = <<>> \/ ~pp[1] THEN SelectParts_Skipping(Tail(parts), num_pages, added)
          ELSE SelectParts_Skipping(Tail(parts), num_pages, added \o pp[2])

\* The pages the parts select, as they are added one after the other, the
\* repeated ones repeated; a part that is not good raises ValueError for the
\* whole call.  <<every part is good, the page numbers added>>
RECURSIVE SelectParts(_, _, _)
SelectParts(parts, num_pages, added) ==
  IF parts = <<>> THEN <<TRUE, added>>
  ELSE LET part == PyStrip(parts[1])
           pp == PartPages(part, num_pages)
       IN IF part = <<>> THEN SelectParts(Tail(parts), num_pages, added)
          ELSE IF ~pp[1] THEN <<FALSE, <<>>>>
          ELSE SelectParts(Tail(parts), num_pages, added \o pp[2])

\* a loop over the pages as they were added, one rotation for each mention
TimesRotated_PerMention(added, page) ==
  Cardinality({k \in DOMAIN added : added[k] = page})

\* rotate_indices is a set: the loop over it comes to each page once
TimesRotated(added, page) ==
  IF \E k \in DOMAIN added : added[k] = page THEN 1 ELSE 0

\* rotate_pdf(input_path, output_path, pages_str, angle) on a document of
\* num_pages pages, the angle as the text the server received
RotatePdf(num_pages, pages_str, angle_str) ==
  LET angle == PyInt(angle_str)
      none == [p \in 1..num_pages |-> 0]
      pages_str_lower == LowerText(PyStrip(pages_str))
      sel == IF pages_str_lower = <<"a", "l", "l">>
               THEN <<TRUE, PageRange(1, num_pages)>>
               ELSE IF pages_str_lower # <<>>
                      THEN SelectParts(SplitOn(pages_str_lower, ","), num_pages, <<>>)
                      ELSE <<TRUE, <<>>>>
      times == [p \in 1..num_pages |-> TimesRotated(sel[2], p)]
      rotated_count == Cardinality({p \in 1..num_pages : times[p] > 0})
  IN IF ~angle[1] \/ angle[2] % 90 # 0
       THEN RotateResult(TRUE, none, 0, FALSE, 0)
     ELSE IF num_pages = 0 \/ ~sel[1]
       THEN RotateResult(TRUE, none, 0, FALSE, 1)
     ELSE RotateResult(FALSE, times, angle[2], TRUE, 1 + rotated_count + 1)

\* the angles tried, as texts
AngleSamples ==
  { <<"9", "0">>, <<"1", "8", "0">>, <<"-", "9", "0">>, <<" ", "9", "0">>,
    <<"4", "5">>, <<"9", "0", ".", "5">>, <<"x">> }

AllSamples == { <<"a", "l", "l">>, <<"A", "L", "L">>, <<" ", "A", "l", "l", " ">> }

MaxRotateSegs == 2  \* most parts in the page specification of a rotation
RotatePageCounts == {0, 3}

\* lines 682-683 and 689-739 around rotate_pdf: when the engine returns,
\* action_success is set and the result is sent; when it raises,
\* action_success is still False and the except clause of the error sends
\* the error envelope
RotateSession(engine) ==
  IF engine.raised
    THEN [action_success |-> FALSE, handler |-> HandlerOf("value"),
          sent |-> IF HandlerOf("value") \in {"fnf", "generic"}
                     THEN <<"errname", "errsize", "errmsg">> ELSE <<>>]
    ELSE [action_success |-> TRUE, handler |-> "none",
          sent |-> IF engine.wrote THEN <<"name", "size", "payload">>
                                   ELSE <<"errname", "errsize", "errmsg">>]

CallRotatePdf ==
  /\ call.fn = "none"
  /\ \E num_pages \in RotatePageCounts, angle_str \in AngleSamples :
        \/ \E pages_str \in AllSamples :
              call' = [fn |-> "rotate_pdf", num_pages |-> num_pages, all |-> TRUE,
                       segs |-> <<>>, pages_str |-> pages_str, angle_str |-> angle_str,
                       result |-> RotatePdf(num_pages, pages_str, angle_str),
                       session |-> RotateSession(RotatePdf(num_pages, pages_str, angle_str))]
        \/ \E segs \in BoundedSeq(SegmentSamples, MaxRotateSegs) :
              call' = [fn |-> "rotate_pdf", num_pages |-> num_pages, all |-> FALSE,
                       segs |-> segs, pages_str |-> RangesText(segs), angle_str |-> angle_str,
                       result |-> RotatePdf(num_pages, RangesText(segs), angle_str),
                       session |->
                         RotateSession(RotatePdf(num_pages, RangesText(segs), angle_str))]
  /\ UNCHANGED <<rvars, dvars>>

\* the angle is a whole number and a multiple of 90
AngleGood(angle_str) == PyInt(angle_str)[1] /\ PyInt(angle_str)[2] % 90 = 0

\* the pages a call selects: all of them, or those of its parts
Selected(c) ==
  IF c.all THEN 1..c.num_pages
  ELSE {p \in 1..c.num_pages :
          \E i \in DOMAIN c.segs :
             /\ SegValid(c.segs[i], c.num_pages)
             /\ SegFirst(c.segs[i], c.num_pages) <= p
             /\ p <= SegLast(c.segs[i], c.num_pages)}

\* C30: rotate with pages "all" rotates every page exactly once by the given
\* angle; with a page list it rotates each selected page exactly once, also
\* when the page is listed more than once; an angle that is not a multiple
\* of 90 is rejected before the PDF library is called at all, so that no
\* page is rotated and no output is written.
C30_RotateOnce ==
  call.fn = "rotate_pdf" =>
    /\ ~call.result.raised =>
          /\ AngleGood(call.angle_str)
          /\ call.result.angle = PyInt(call.angle_str)[2]
          /\ call.result.wrote
          /\ \A p \in 1..call.num_pages :
                call.result.times[p] = IF p \in Selected(call) THEN 1 ELSE 0
    /\ (AngleGood(call.angle_str) /\ call.all /\ call.num_pages > 0) => ~call.result.raised
    /\ ~AngleGood(call.angle_str) =>
          /\ call.result.raised
          /\ call.result.library_calls = 0
    /\ call.result.raised =>
          /\ ~call.result.wrote
          /\ \A p \in 1..call.num_pages : call.result.times[p] = 0

\* page 1 named twice and in a range as well, rotated once by 90
C30_Witness ==
  /\ call.fn = "rotate_pdf"
  /\ call.num_pages = 3
  /\ call.segs = <<Seg("page", 1, 0, <<>>), Seg("range", 1, 3, <<>>)>>
  /\ call.angle_str = <<"9", "0">>
  /\ ~call.result.raised
  /\ call.result.times = <<1, 1, 1>>
  /\ call.result.angle = 90

\* "all" and 90 on three pages
C30_AllRotated ==
  /\ call.fn = "rotate_pdf" /\ call.all /\ call.num_pages = 3
  /\ call.angle_str = <<"9", "0">>
  /\ call.result.times = <<1, 1, 1>> /\ call.result.wrote

\* 45 degrees: nothing done
C30_BadAngleRejected ==
  /\ call.fn = "rotate_pdf" /\ call.num_pages = 3
  /\ call.angle_str = <<"4", "5">>
  /\ call.result.raised /\ call.result.library_calls = 0

\* ----------------------------------------------------------- merge_pdfs
\* the code points of the characters of the entry names
CodePoint(c) ==
  CASE c = "." -> 46 [] c = "/" -> 47
    [] c = "B" -> 66 [] c = "D" -> 68 [] c = "F" -> 70 [] c = "P" -> 80
    [] c = "a" -> 97 [] c = "b" -> 98 [] c = "c" -> 99 [] c = "d" -> 100
    [] c = "f" -> 102 [] c = "n" -> 110 [] c = "p" -> 112 [] c = "t" -> 116
    [] c = "x" -> 120

\* a < b for two strings of Python: by the first character that differs,
\* and a proper prefix comes first
RECURSIVE TextLess(_, _)
TextLess(a, b) ==
  IF b = <<>> THEN FALSE
  ELSE IF a = <<>> THEN TRUE
  ELSE IF a[1] = b[1] THEN TextLess(Tail(a), Tail(b))
  ELSE CodePoint(a[1]) < CodePoint(b[1])

\* one more path put in its place in a sorted list, after the equal ones
RECURSIVE InsertSorted(_, _)
InsertSorted(sorted, path) ==
  IF sorted = <<>> THEN <<path>>
  ELSE IF TextLess(path, sorted[1]) THEN <<path>> \o sorted
  ELSE <<sorted[1]>> \o InsertSorted(Tail(sorted), path)

\* a list left in the order it was built in
SortPaths_Unsorted(paths) == paths

\* list.sort() of a list of paths
RECURSIVE SortPaths(_)
SortPaths(paths) ==
  IF paths = <<>> THEN <<>>
  ELSE InsertSorted(SortPaths(SubSeq(paths, 1, Len(paths) - 1)), paths[Len(paths)])

\* s ends with suffix
EndsWith(s, suffix) ==
  Len(s) >= Len(suffix) /\ SubSeq(s, Len(s) - Len(suffix) + 1, Len(s)) = suffix

\* ZipInfo.is_dir(): the name ends with a slash
IsDir(filename) == filename # <<>> /\ filename[Len(filename)] = "/"

\* an entry that is not passed over
IsMergeMember(filename) ==
  /\ ~IsDir(filename)
  /\ EndsWith(LowerText(filename), Chars_pdf)
  /\ ~Contains(filename, <<".", ".", "/">>, FALSE)

\* the directory the entries are extracted to, the same for all of them
temp_extract_dir == <<"t">>

\* the target joined to the name as the archive has it
TargetPath_Joined(filename) == temp_extract_dir \o <<"/">> \o filename

\* os.path.join(temp_extract_dir, os.path.basename(member.filename))
TargetPath(filename) == temp_extract_dir \o <<"/">> \o Basename(filename)

\* zip_ref.open(member.filename): the archive is asked for the name, and
\* gives the last entry that has it
OpenByName(archive, filename) ==
  archive[CHOOSE i \in DOMAIN archive :
            /\ archive[i].filename = filename
            /\ \A j \in DOMAIN archive : archive[j].filename = filename => j <= i].content

\* the entries that are extracted, in the order of the archive
MergeMembers(archive) == SelectSeq(archive, LAMBDA m : IsMergeMember(m.filename))

\* pdf_files_to_merge before it is sorted
PdfFilesToMerge(archive) ==
  [i \in DOMAIN MergeMembers(archive) |-> TargetPath(MergeMembers(archive)[i].filename)]

\* what a path holds once every entry is extracted: what was written there last
ExtractedContent(archive, path) ==
  LET members == MergeMembers(archive)
      last == CHOOSE i \in DOMAIN members :
                /\ TargetPath(members[i].filename) = path
                /\ \A j \in DOMAIN members : TargetPath(members[j].filename) = path => j <= i
  IN OpenByName(archive, members[last].filename)

\* merge_pdfs(input_zip_path, output_path) on an archive: the files handed
\* to merger.append one after the other, each with what it holds
MergePdfs(archive) ==
  LET paths == SortPaths(PdfFilesToMerge(archive))
  IN [raised |-> paths = <<>>,
      appended |-> [i \in DOMAIN paths |->
                      [path |-> paths[i], content |-> ExtractedContent(archive, paths[i])]]]

\* the entry names tried
EntryNames ==
  { <<"a", ".", "p", "d", "f">>, <<"b", ".", "p", "d", "f">>, <<"B", ".", "P", "D", "F">>,
    <<"d", "/", "a", ".", "p", "d", "f">>, <<"n", ".", "t", "x", "t">>, <<"d", "/">>,
    <<".", ".", "/", "c", ".", "p", "d", "f">> }

MaxEntries == 3     \* most entries in an archive

\* an archive of entries with these names, each entry with a content of its own
ArchiveOf(names) == [i \in DOMAIN names |-> [filename |-> names[i], content |-> i]]

\* An archive and the same entries in another order are merged.
CallMergePdfs ==
  /\ call.fn = "none"
  /\ \E names \in BoundedSeq(EntryNames, MaxEntries) :
       \E perm \in Permutations(DOMAIN names) :
         LET archive == ArchiveOf(names)
             reordered == [i \in DOMAIN names |-> archive[perm[i]]]
         IN call' = [fn |-> "merge_pdfs", archive |-> archive, reordered |-> reordered,
                     result |-> MergePdfs(archive),
                     result_reordered |-> MergePdfs(reordered)]
  /\ UNCHANGED <<rvars, dvars>>

\* the paths of what was appended are in ascending order
AppendedAscending(appended) ==
  \A i \in 1..(Len(appended) - 1) : ~TextLess(appended[i + 1].path, appended[i].path)

\* every extracted entry is appended once, and nothing else is
AppendsTheEntries(archive, appended) ==
  /\ Len(appended) = Len(MergeMembers(archive))
  /\ \A i \in DOMAIN MergeMembers(archive) :
        Cardinality({k \in DOMAIN appended :
                       /\ appended[k].content = MergeMembers(archive)[i].content
                       /\ appended[k].path = TargetPath(MergeMembers(archive)[i].filename)}) = 1

\* C28: merge hands the engine the extracted archive entries sorted ascending
\* by filename, whatever the order of the entries in the archive: two
\* archives with the same entries in different orders give the same appends.
C28_MergeSortedAnyOrder ==
  call.fn = "merge_pdfs" =>
    /\ AppendedAscending(call.result.appended)
    /\ AppendsTheEntries(call.archive, call.result.appended)
    /\ call.result_reordered = call.result

\* no two extracted entries of the archive have the same base name
DistinctBaseNames(archive) ==
  \A i, j \in DOMAIN MergeMembers(archive) :
     TargetPath(MergeMembers(archive)[i].filename) = TargetPath(MergeMembers(archive)[j].filename)
        => i = j

\* the same for the archives whose extracted entries have base names of their own
C28_DistinctNamesSorted ==
  (call.fn = "merge_pdfs" /\ DistinctBaseNames(call.archive)) =>
    /\ AppendedAscending(call.result.appended)
    /\ AppendsTheEntries(call.archive, call.result.appended)
    /\ call.result_reordered = call.result

\* three entries of distinct names that are not in order in the archive
C28_DistinctNamesReached ==
  /\ call.fn = "merge_pdfs"
  /\ DistinctBaseNames(call.archive)
  /\ Len(call.result.appended) = 3
  /\ call.reordered # call.archive
  /\ PdfFilesToMerge(call.archive) # SortPaths(PdfFilesToMerge(call.archive))

\* ------------------------------------------- the archive of the results
\* the scratch directory the engine writes its files to
output_dir == <<"o">>

\* the base name of the input file as split_pdf writes it into its file names
SplitSafeBase == <<"x", "_", "p", "d", "f">>

\* convert_pdf_to_jpg on a document of page_count pages: page_001.jpg,
\* page_002.jpg, ... in output_dir, or an error when there is no page
ConvertPdfToJpg(page_count) ==
  [raised |-> page_count = 0,
   created_files |->
     [i \in 1..page_count |->
        [path |-> output_dir \o <<"/", "p", "a", "g", "e", "_">> \o ZFill(StrOfNat(i), 3)
                    \o <<".", "j", "p", "g">>,
         content |-> <<i>>]]]

\* the files split_pdf returns: split_1_<base>.pdf, split_2_<base>.pdf, ...
\* each holding its pages
SplitCreated(split) ==
  [raised |-> split.raised,
   created_files |->
     [i \in DOMAIN split.output_files |->
        [path |-> output_dir \o <<"/", "s", "p", "l", "i", "t", "_">>
                    \o StrOfNat(split.output_files[i].file_index) \o <<"_">>
                    \o SplitSafeBase \o Chars_pdf,
         content |-> split.output_files[i].pages]]]

\* an archive opened again for each file, which keeps the last one only
ZipWrite_LastOnly(created_files) ==
  IF created_files = <<>> THEN <<>>
  ELSE <<[arcname |-> Basename(created_files[Len(created_files)].path),
          content |-> created_files[Len(created_files)].content]>>

\* for file in created_files: zipf.write(file, os.path.basename(file))
ZipWrite(created_files) ==
  [i \in DOMAIN created_files |->
     [arcname |-> Basename(created_files[i].path), content |-> created_files[i].content]]

\* The branch of pdf_to_jpg or of split and what follows it: the engine, the
\* archive written to output_path, then the result leg, whose payload is the
\* file at output_path.  When the engine raises no archive is written and the
\* error envelope is sent.
PackageResult(engine) ==
  IF engine.raised
    THEN [action_success |-> FALSE, output_exists |-> FALSE, output |-> <<>>,
          steps |-> <<"engine", "errname", "errsize", "errmsg">>, payload |-> <<>>]
    ELSE [action_success |-> TRUE, output_exists |-> TRUE,
          output |-> ZipWrite(engine.created_files),
          steps |-> <<"engine", "zip", "name", "size", "payload">>,
          payload |-> ZipWrite(engine.created_files)]

MaxPages == 3       \* most pages of a document turned into images
MaxPackSegs == 2    \* most parts in the page specification of a split that is packaged

CallPackage ==
  /\ call.fn = "none"
  /\ \/ \E page_count \in 0..MaxPages :
          call' = [fn |-> "package", action |-> "pdf_to_jpg",
                   engine |-> ConvertPdfToJpg(page_count),
                   result |-> PackageResult(ConvertPdfToJpg(page_count))]
     \/ \E num_pages \in {0, 10}, segs \in BoundedSeq(SegmentSamples, MaxPackSegs) :
          LET engine == SplitCreated(SplitPdf(num_pages, RangesText(segs)))
          IN call' = [fn |-> "package", action |-> "split",
                      engine |-> engine, result |-> PackageResult(engine)]
  /\ UNCHANGED <<rvars, dvars>>

\* the place of a step among the steps, 0 when it was not taken
StepAt(steps, step) ==
  IF \E i \in DOMAIN steps : steps[i] = step
    THEN CHOOSE i \in DOMAIN steps : steps[i] = step
    ELSE 0

\* C32: for pdf_to_jpg and split the files the engine returned are put into
\* one archive before the result name is sent: the archive has exactly one
\* entry for each returned file, and the payload of the result is the archive.
C32_ResultArchive ==
  (call.fn = "package" /\ ~call.engine.raised) =>
    LET created == call.engine.created_files
        archive == call.result.output
    IN /\ call.result.output_exists
       /\ Len(archive) = Len(created)
       /\ \A i \in DOMAIN created :
             Cardinality({k \in DOMAIN archive :
                            /\ archive[k].arcname = Basename(created[i].path)
                            /\ archive[k].content = created[i].content}) = 1
       /\ 0 < StepAt(call.result.steps, "zip")
       /\ StepAt(call.result.steps, "zip") < StepAt(call.result.steps, "name")
       /\ call.result.payload = archive

\* a split of two groups, packaged as two entries
C32_Witness ==
  /\ call.fn = "package" /\ call.action = "split"
  /\ Len(call.engine.created_files) = 2
  /\ Len(call.result.payload) = 2
  /\ call.result.payload[2].arcname =
        <<"s", "p", "l", "i", "t", "_", "2", "_", "x", "_", "p", "d", "f", ".", "p", "d", "f">>

\* three pages as three images
C32_ImagesPackaged ==
  /\ call.fn = "package" /\ call.action = "pdf_to_jpg"
  /\ Len(call.result.payload) = 3
  /\ call.result.payload[3].arcname = <<"p", "a", "g", "e", "_", "0", "0", "3", ".", "j", "p", "g">>

\* --------------------------------------------------- the functions called
\* ------------------------------------------- the files of a merge
\* shutil.rmtree(dir, ignore_errors=True): the directory and all inside it go
RmTree(files, dir) == {f \in files : f # dir /\ ~IsPrefix(dir \o <<"/">>, f)}

\* where merge_pdfs writes the merged document
merge_output_path == <<"m", ".", "p", "d", "f">>

\* merge_pdfs on the file system: the directory is made (line 374), every
\* entry not passed over is copied to its target (lines 378-387), the merged
\* document is written unless nothing was extracted or the engine fails
\* (lines 389-402), and the finally removes the directory (lines 408-411)
MergeFiles(archive, engine_fails) ==
  LET made == {temp_extract_dir}
      pdf_files_to_merge == PdfFilesToMerge(archive)
      extracted_files == {pdf_files_to_merge[i] : i \in DOMAIN pdf_files_to_merge}
      raised == pdf_files_to_merge = <<>> \/ engine_fails
      before_finally ==
        made \cup extracted_files \cup (IF raised THEN {} ELSE {merge_output_path})
  IN [raised |-> raised,
      extracted_files |-> extracted_files,
      extracted_from |-> {MergeMembers(archive)[i].filename : i \in DOMAIN MergeMembers(archive)},
      files |-> IF temp_extract_dir \in before_finally
                  THEN RmTree(before_finally, temp_extract_dir) ELSE before_finally]

\* merge_pdfs is called on an archive; the engine appends and writes, or fails.
CallMergeFiles ==
  /\ call.fn = "none"
  /\ \E names \in BoundedSeq(EntryNames, MaxEntries), engine_fails \in BOOLEAN :
       call' = [fn |-> "merge_files", archive |-> ArchiveOf(names),
                engine_fails |-> engine_fails,
                result |-> MergeFiles(ArchiveOf(names), engine_fails)]
  /\ UNCHANGED <<rvars, dvars>>

CallsInit ==
  /\ client \in {InitClient(r) : r \in {q \in Requests : q.action = "bogus" /\ q.nPaths = 1 /\ q.nValid = 0}}
  /\ server = InitServer
  /\ c2s = <<>>
  /\ s2c = <<>>
  /\ conn = "none"
  /\ log = InitLog
  /\ listen = InitListen
  /\ loop = InitLoop
  /\ temp = {}
  /\ call = NoCall

CallsNext ==
  \/ CallEncodeSize
  \/ CallDecodeSize
  \/ CallSplitPdf
  \/ CallMergePdfs
  \/ CallMergeFiles
  \/ CallRotatePdf
  \/ CallPackage
  \/ CallReturn

\* the functions of the program, called one at a time on the inputs tried
Calls == CallsInit /\ [][CallsNext]_vars

\* a size that fits the field: one of at most 16 digits
FitsField(n) == SizeLeq(n, <<0, 9999999, 999999999>>)

\* C31: for every size n that fits the field, reading the field sent for n
\* gives n again; both sides write the field with the same expression and
\* read it with the same expression.
C31_SizeRoundTrip ==
  (call.fn = "decode_size" /\ FitsField(call.n)) =>
     /\ Len(call.sent) = SizeFieldWidth
     /\ call.result = <<TRUE, call.n>>

\* the largest size of 16 digits, which leaves no room for padding
C31_Witness ==
  /\ call.fn = "decode_size"
  /\ call.n = <<0, 9999999, 999999999>>
  /\ call.result = <<TRUE, call.n>>

\* a size that is padded
C31_PaddedRead ==
  /\ call.fn = "decode_size"
  /\ call.n = <<0, 0, 65537>>
  /\ call.sent[6] = " "
  /\ call.result = <<TRUE, call.n>>

\* C33: every receive of a bulk transfer, of the payload at the server and of
\* the result at the client, is made under the chunk-read timeout of 120 s,
\* which is shorter than the operation timeout of 600 s that is in force
\* while the engine runs.
C33_ChunkReadTimeout ==
  /\ log.srecv_timeouts \subseteq {ChunkReadTimeout}
  /\ log.crecv_timeouts \subseteq {ChunkReadTimeout}
  /\ server.pc = "process" => server.timeout = ProcessingTimeout
  /\ ChunkReadTimeout < ProcessingTimeout

\* the half of it that is about the server
C33_ServerChunkTimeout ==
  /\ log.srecv_timeouts \subseteq {ChunkReadTimeout}
  /\ server.pc = "process" => server.timeout = ProcessingTimeout
  /\ ChunkReadTimeout < ProcessingTimeout

\* the server has received payload and is about to run the engine
C33_ServerReached ==
  /\ server.pc = "process"
  /\ server.received_bytes = MaxFile
  /\ log.srecv_timeouts = {ChunkReadTimeout}

\* the server has sent the first frame of a result: a name, of a success or
\* of an error
ResultNameSent == \E i \in DOMAIN log.ssent : log.ssent[i] \in {"name", "errname"}

\* the client waits for an ACK of the request leg
ClientAwaitsAck == client.pc \in {"ack_action", "ack_filename", "ack_size", "ack_option"}

\* C34: the server sends the first frame of a result envelope, of a success
\* or of an error, only after it has read the size field, the whole declared
\* payload and every option field of the action, so that the client reads it
\* where it waits for the result name and not where it waits for an ACK;
\* and this for every failure of the server, those before and during the
\* payload included.
C34_EnvelopeAfterRequest ==
  /\ ResultNameSent =>
        /\ log.ssize # "none"
        /\ ParseSize(<<RawSizeTok(log.ssize, server.size)>>)[1]
        /\ server.received_bytes = server.size
        /\ server.optIdx = Len(ServerOptionFields(server.action))
  /\ ~(ClientAwaitsAck /\ s2c # <<>> /\ s2c[1].k = "name")

\* an engine failure on a request that client.py sent: the error name goes
\* out after the payload and both options, and the client waits for it
C34_AfterFullRequest ==
  /\ ResultNameSent
  /\ server.handler = "generic"
  /\ server.action = "rotate"
  /\ server.received_bytes = MaxFile
  /\ client.pc = "out_filename"

\* the client is in a recv
ClientInRecv ==
  /\ ~client.closed
  /\ client.pc \in {"ack_action", "ack_filename", "ack_size", "ack_option",
                    "out_filename", "out_size", "error_msg", "out_data"}

\* the server is in a recv of the session
ServerInRecv ==
  /\ InSession
  /\ server.pc \in {"action", "filename", "size", "data", "option",
                    "ack_out_filename", "ack_out_size", "err_name", "err_size"}

\* both programs are in a recv and nothing is on its way to either
BothBlocked == ClientInRecv /\ ServerInRecv /\ c2s = <<>> /\ s2c = <<>>

\* C35: the session never deadlocks: in no reachable state are the client and
\* the server both blocked in a receive with no bytes in flight in either
\* direction, for every action and every option value the client accepts,
\* the empty string included.
C35_NoDeadlock == ~BothBlocked

\* the only way into it: an option that is the empty string, which the client
\* has handed to sendall
C35_OnlyByEmptyOption ==
  BothBlocked =>
     /\ MutualOptionWait
     /\ ClientFieldValue(client.options,
                         ClientOptionFields(client.action)[client.optIdx].key) = ""

\* the frames of a success envelope, in order: the name, the size, and then
\* the chunks of the payload
IsSuccessEnvelope(sent) ==
  \A i \in DOMAIN sent :
     sent[i] = (IF i = 1 THEN "name" ELSE IF i = 2 THEN "size" ELSE "data")

\* how many times a frame was sent
TimesSent(frame) == Cardinality({i \in DOMAIN log.ssent : log.ssent[i] = frame})

\* C36: the server sends at most one result envelope in a session: no error
\* envelope after it has begun a success envelope, no success envelope after
\* an error envelope, and the error envelope not twice.
C36_OneEnvelope ==
  /\ TimesSent("name") + TimesSent("errname") <= 1
  /\ TimesSent("name") = 1 => IsSuccessEnvelope(log.ssent)
  /\ TimesSent("errname") = 1 => IsPrefix(log.ssent, ErrorEnvelopeFrames)
  /\ log.ssent # <<>> => log.ssent[1] \in {"name", "errname"}

\* the client is lost while the server waits for the ACK of a result name it
\* has sent: the session ends with the name as the only frame
C36_Witness ==
  /\ log.ssent = <<"name">>
  /\ server.raised \in {"timeout", "reset", "eof", "badack"}
  /\ server.closed

\* an output file that is missing: the error envelope, whole, and nothing else
C36_ErrorOnly ==
  /\ log.ssent = ErrorEnvelopeFrames
  /\ server.handler = "fnf"
  /\ server.closed

\* the fields of the request the server has received with at least one byte
\* in them: the action, the file name, the size, and the options so far
FieldsReceived ==
  (IF server.action # "unknown" THEN 1 ELSE 0)
    + (IF server.base_filename # <<>> THEN 1 ELSE 0)
    + (IF log.ssize # "none" /\ ParseSize(<<RawSizeTok(log.ssize, server.size)>>)[1] THEN 1 ELSE 0)
    + server.optIdx

\* C37: an ACK implies receipt: the server sends ACK_ACTION, ACK_FILENAME,
\* ACK_SIZE and each option ACK only after it has received a field of at
\* least one byte for that step; a read that returned zero bytes is never
\* acknowledged.
C37_AckImpliesReceipt ==
  /\ Len(log.sacks) <= FieldsReceived
  /\ ~log.sempty

\* the ACKs of the action, the file name and the size, which are sent after
\* the test of what was read; and of the options, an ACK too many only for a
\* read of zero bytes
C37_HeaderAcksAfterReceipt ==
  /\ Len(log.sacks) <= FieldsReceived + (IF log.sempty THEN 1 ELSE 0)
  /\ (server.pc \in {"action", "filename", "size", "data"} /\ InSession)
        => Len(log.sacks) <= FieldsReceived

\* ------------------------------------------------- C38: the two temporary paths
\* the pass of the loop has set its paths (lines 558-596 ran)
PathsSet == loop.pc # "accept" /\ loop.input_path # NoPath /\ loop.output_path # NoPath

\* C38: within one session the temporary input path and the temporary output
\* path are distinct, for every action and every file name and extension the
\* client supplies
C38_PathsDistinct ==
  PathsSet => PathText(loop.input_path) # PathText(loop.output_path)

\* the two paths are distinct for every action but the two whose output keeps
\* the name of the input and changes only its extension
C38_DistinctButDocuments ==
  (PathsSet /\ loop.action \notin {"pdf_to_word", "pdf_to_pptx"})
    => PathText(loop.input_path) # PathText(loop.output_path)

\* ------------------------------------------------- C39: the extraction of a merge
\* path is a file directly inside dir: dir, a separator, and one name that
\* holds no separator and is neither "." nor ".."
DirectlyInside(path, dir) ==
  LET leaf == Drop(path, Len(dir) + 1)
  IN  /\ IsPrefix(dir \o <<"/">>, path)
      /\ leaf # <<>>
      /\ \A i \in DOMAIN leaf : leaf[i] \notin {"/", "\\"}
      /\ leaf \notin {<<".">>, <<".", ".">>}

C39_ReturnedClean ==
  /\ call.fn = "merge_files"
  /\ call.result.extracted_files # {}
  /\ ~call.result.raised
  /\ call.result.files = {merge_output_path}

\* ------------------------------------------------- C40: a bad part in rotate
\* a part that is written (not empty once stripped) and is no page or range
\* of pages of the document
BadSegment(seg, num_pages) == PyStrip(SegText(seg)) # <<>> /\ ~SegValid(seg, num_pages)

\* C40: in rotate a malformed or out-of-range part of the page specification
\* fails the whole action: no page is rotated, no output is written, and the
\* error envelope is what the server sends.
C40_BadSegmentFailsRotate ==
  (/\ call.fn = "rotate_pdf"
   /\ ~call.all
   /\ \E i \in DOMAIN call.segs : BadSegment(call.segs[i], call.num_pages))
    => /\ call.result.raised
       /\ \A p \in 1..call.num_pages : call.result.times[p] = 0
       /\ ~call.result.wrote
       /\ ~call.session.action_success
       /\ call.session.sent = <<"errname", "errsize", "errmsg">>

\* "1-3,5" on three pages with a good angle: the first part is good, the
\* second is out of range; split_pdf gives a file for the first, rotate fails
C40_Witness ==
  /\ call.fn = "rotate_pdf"
  /\ ~call.all
  /\ call.num_pages = 3
  /\ AngleGood(call.angle_str)
  /\ call.pages_str = <<"1", "-", "3", ",", "5">>
  /\ ~SplitPdf(call.num_pages, call.pages_str).raised
  /\ call.result.raised
  /\ call.session.sent = <<"errname", "errsize", "errmsg">>

\* a malformed part after a good one does the same
C40_MalformedReached ==
  /\ call.fn = "rotate_pdf"
  /\ call.num_pages = 3
  /\ AngleGood(call.angle_str)
  /\ call.pages_str = <<"1", ",", "x">>
  /\ call.result.raised

====
